---- MODULE Spec2Model ----
(***************************************************************************)
(* A model of the eventually persistent store of ep-engine (src/ep.cc):    *)
(* the partitioned in-memory hash table, the dirty queue, the flusher and  *)
(* its persistence callbacks, the background fetcher and the partition     *)
(* life cycle.  The operations of EventuallyPersistentStore are translated *)
(* from src/ep.cc.  StoredValue, HashTable, VBucket and the backing store  *)
(* are declared in headers that are not part of src/; they are modelled    *)
(* from the specification (sections 3, 4.C, 4.F and 6).                    *)
(***************************************************************************)
EXTENDS Integers, Sequences, FiniteSets, TLC

(***************************************************************************)
(* Bounds of the model.                                                    *)
(***************************************************************************)
MaxTime == 1
MaxCas == 2
MaxPending == 1
MaxBgFetch == 1
MaxNotify == 1
MaxQueue == 2
MaxPersist == 2
MaxCommitFailed == 1
MaxRecords == 3
MaxDeleters == 1
MaxDelTasks == 2

VBids == {0, 1}
Keys == {"a", "b"}
Vals == {"x", "y"}
Cookies == {"K"}

(***************************************************************************)
(* Configuration of the engine.                                            *)
(***************************************************************************)
doPersistence == TRUE
EpochStart == 10
minDataAge == 0
queueAgeCap == 5
itemExpiryWindow == 0
txnSize == 2
MaxRowId == 2

VARIABLES
    now,            \* ep_current_time()
    vbstate,        \* partition table: state of each partition id, "none" = absent
    pendingOps,     \* cookies parked on each partition
    ht,             \* hash table of each partition: key -> stored value
    casCounter,     \* the last cas handed out by Item::setCas()
    towrite,        \* dirty queue: producer side
    writing,        \* dirty queue: flusher side
    rejectQueue,    \* the flusher's reject queue
    fl,             \* the flusher task: its position and the locals of flushOneDelOrSet
    rows,           \* backing store: rowId -> row
    bgTasks,        \* background fetches scheduled on the I/O dispatcher
    notifyTasks,    \* NotifyVBStateChangeCallback tasks on the non-I/O dispatcher
    notified,       \* notifications delivered to client cookies
    pendingDeletion,\* partition ids whose deletion the backing store has not acknowledged
    accepted,       \* history: the value of the last accepted set or add of each key, Deleted after
                    \* an accepted del, NoValue at the start and after an expiry
    stats,          \* EPStats: min_data_age and queue_age_cap
    warmup,         \* LoadStorageKVPairCallback: hasPurged, and what its calls have added
                    \* to the counters of EPStats
    disp,           \* the Dispatcher of src/t/dispatcher_test.cc: state, clock, task queue
    test,           \* main of src/t/dispatcher_test.cc: its position, callbacks, and the
                    \* history of the invocations of each task
    lk,             \* each thread's code path: the mutexes it holds and the step it is at
    deleting,       \* deleteVBucket calls of each partition id between the unlock of
                    \* vbsetMutex and the detachment
    delTasks,       \* VBucketDeletionCallback tasks scheduled for each partition id
    setTasks,       \* SetVBStateCallback tasks on the I/O dispatcher, in the order they wake
    vbDisk          \* backing store: the state persisted for each partition id

vars == <<now, vbstate, pendingOps, ht, casCounter, towrite, writing, rejectQueue,
          fl, rows, bgTasks, notifyTasks, notified, pendingDeletion, accepted, stats,
          warmup, disp, test, lk, deleting, delTasks, setTasks, vbDisk>>

\* The tasks of the partition life cycle and what they persist.
VBPersist == <<deleting, delTasks, setTasks, vbDisk>>

NoEntry == [present |-> FALSE]
NoValue == "none"
Deleted == "deleted"

(***************************************************************************)
(* Time.                                                                   *)
(***************************************************************************)
ep_current_time == now

ep_abs_time(offset) == EpochStart + offset

ep_real_time == ep_abs_time(ep_current_time)

ExpTimes == {0, EpochStart + 1}
LockTimeouts == {1}

(***************************************************************************)
(* StoredValue.                                                            *)
(***************************************************************************)
NewStoredValue(value, exptime, cas, t) ==
    [present |-> TRUE, value |-> value, cas |-> cas, exptime |-> exptime,
     rowId |-> -1, pendingId |-> FALSE, dirty |-> TRUE, dirtied |-> t,
     deleted |-> FALSE, lockedUntil |-> 0]

isResident(v) == v.value # NoValue

isDeleted(v) == v.deleted

isDirty(v) == v.dirty

isClean(v) == ~v.dirty

isExpired(v, asof) == v.exptime # 0 /\ asof >= v.exptime

isLocked(v, curtime) == v.lockedUntil # 0 /\ curtime < v.lockedUntil

isPendingId(v) == v.pendingId

markDirty(v, t) == [v EXCEPT !.dirty = TRUE, !.dirtied = t]

reDirty(v, dt) == [v EXCEPT !.dirty = TRUE, !.dirtied = dt, !.pendingId = FALSE]

markClean(v) == [v EXCEPT !.dirty = FALSE]

setId(v, id) == [v EXCEPT !.rowId = id, !.pendingId = FALSE]

clearId(v) == [v EXCEPT !.rowId = -1, !.pendingId = FALSE]

setPendingId(v) == [v EXCEPT !.pendingId = TRUE]

lock(v, expiry) == [v EXCEPT !.lockedUntil = expiry]

unlock(v) == [v EXCEPT !.lockedUntil = 0]

setValue(v, value, exptime, cas, t) ==
    markDirty([v EXCEPT !.value = value, !.exptime = exptime, !.cas = cas,
                        !.deleted = FALSE], t)

svDel(v, t) == markDirty([v EXCEPT !.deleted = TRUE, !.value = NoValue], t)

canEject(v, curtime) ==
    isResident(v) /\ isClean(v) /\ ~isDeleted(v) /\ ~isLocked(v, curtime)

ejectValue(v) == [v EXCEPT !.value = NoValue]

restoreValue(v, value) == [v EXCEPT !.value = value]

(***************************************************************************)
(* The store state the operations below read and write, as one record, so  *)
(* that an operation is the composition of the calls it makes.             *)
(***************************************************************************)
Store == [ht |-> ht, towrite |-> towrite, accepted |-> accepted, cas |-> casCounter]

QueuedItem(key, vbid, op, t) == [key |-> key, vb |-> vbid, op |-> op, dirtied |-> t]

(***************************************************************************)
(* HashTable.                                                              *)
(***************************************************************************)
unlocked_find(S, vbid, key, wantDeleted) ==
    LET v == S.ht[vbid][key]
    IN  IF v.present /\ (wantDeleted \/ ~isDeleted(v)) THEN v ELSE NoEntry

putValue(S, vbid, key, v) == [S EXCEPT !.ht[vbid][key] = v]

\* StoredValue::ejectValue on the value v of key, which canEject allows
eject(S, vbid, key, v) == putValue(S, vbid, key, ejectValue(v))

\* HashTable::unlocked_softDelete: [S, rv]
unlocked_softDelete(S, vbid, key) ==
    LET v == unlocked_find(S, vbid, key, FALSE)
    IN  IF ~v.present
        THEN [S |-> S, rv |-> "NOT_FOUND"]
        ELSE [S |-> [putValue(S, vbid, key, svDel(v, ep_current_time))
                        EXCEPT !.accepted[vbid][key] = NoValue],
              rv |-> IF isClean(v) THEN "WAS_CLEAN" ELSE "WAS_DIRTY"]

\* HashTable::set: [S, rv]
htSet(S, item, enforce, hasSpace) ==
    LET v == unlocked_find(S, item.vb, item.key, TRUE)
        newcas == S.cas + 1
        stored(w) == [putValue(S, item.vb, item.key, w)
                         EXCEPT !.cas = newcas, !.accepted[item.vb][item.key] = item.value]
    IN  IF enforce /\ ~hasSpace THEN [S |-> S, rv |-> "NOMEM"]
        ELSE IF v.present
        THEN IF isLocked(v, ep_current_time) /\ item.cas # v.cas
             THEN [S |-> S, rv |-> "IS_LOCKED"]
             ELSE IF ~isLocked(v, ep_current_time) /\ item.cas # 0 /\ item.cas # v.cas
             THEN [S |-> S, rv |-> "INVALID_CAS"]
             ELSE [S |-> stored(setValue(unlock(v), item.value, item.exptime, newcas,
                                         ep_current_time)),
                   rv |-> IF isClean(v) THEN "WAS_CLEAN" ELSE "WAS_DIRTY"]
        ELSE IF item.cas # 0
             THEN [S |-> S, rv |-> "NOT_FOUND"]
             ELSE [S |-> stored(NewStoredValue(item.value, item.exptime, newcas,
                                               ep_current_time)),
                   rv |-> "NOT_FOUND"]

\* HashTable::add: [S, rv]
htAdd(S, item, hasSpace) ==
    LET v == unlocked_find(S, item.vb, item.key, TRUE)
        newcas == S.cas + 1
        stored(w) == [putValue(S, item.vb, item.key, w)
                         EXCEPT !.cas = newcas, !.accepted[item.vb][item.key] = item.value]
    IN  IF ~hasSpace THEN [S |-> S, rv |-> "ADD_NOMEM"]
        ELSE IF v.present /\ ~isDeleted(v)
        THEN [S |-> S, rv |-> "ADD_EXISTS"]
        ELSE IF v.present
        THEN [S |-> stored(setValue(v, item.value, item.exptime, newcas, ep_current_time)),
              rv |-> "ADD_UNDEL"]
        ELSE [S |-> stored(NewStoredValue(item.value, item.exptime, newcas,
                                          ep_current_time)),
              rv |-> "ADD_SUCCESS"]

(***************************************************************************)
(* EventuallyPersistentStore: helpers.                                     *)
(***************************************************************************)
\* A fault of queueDirty: the item is never pushed.
queueDirty_Drops(S, key, vbid, op) == S

\* EventuallyPersistentStore::queueDirty
queueDirty(S, key, vbid, op) ==
    IF doPersistence
    THEN [S EXCEPT !.towrite = Append(@, QueuedItem(key, vbid, op, ep_current_time))]
    ELSE S

\* A fault of fetchValidValue: the lookup always asks for tombstones.
fetchValidValue_SeesTombstones(S, vbid, key, wantDeleted) ==
    LET v == unlocked_find(S, vbid, key, TRUE)
    IN  IF v.present /\ isDeleted(v)
        THEN [S |-> S, v |-> v]
        ELSE IF v.present /\ isExpired(v, ep_real_time)
        THEN LET d == unlocked_softDelete(S, vbid, key)
             IN  [S |-> IF d.rv = "WAS_CLEAN"
                        THEN queueDirty(d.S, key, vbid, "del")
                        ELSE d.S,
                  v |-> NoEntry]
        ELSE [S |-> S, v |-> v]

\* A fault of fetchValidValue: an expiry queues a del whatever softDelete returned.
fetchValidValue_AlwaysQueues(S, vbid, key, wantDeleted) ==
    LET v == unlocked_find(S, vbid, key, wantDeleted)
    IN  IF v.present /\ isDeleted(v)
        THEN [S |-> S, v |-> v]
        ELSE IF v.present /\ isExpired(v, ep_real_time)
        THEN LET d == unlocked_softDelete(S, vbid, key)
             IN  [S |-> queueDirty(d.S, key, vbid, "del"), v |-> NoEntry]
        ELSE [S |-> S, v |-> v]

\* EventuallyPersistentStore::fetchValidValue: [S, v]
fetchValidValue(S, vbid, key, wantDeleted) ==
    LET v == unlocked_find(S, vbid, key, wantDeleted)
    IN  IF v.present /\ isDeleted(v)
        THEN [S |-> S, v |-> v]
        ELSE IF v.present /\ isExpired(v, ep_real_time)
        THEN LET d == unlocked_softDelete(S, vbid, key)
             IN  [S |-> IF d.rv = "WAS_CLEAN"
                        THEN queueDirty(d.S, key, vbid, "del")
                        ELSE d.S,
                  v |-> NoEntry]
        ELSE [S |-> S, v |-> v]

\* The result of a client operation: the store as the operation leaves it, the
\* status it returns, and what it hands to the partition and to the dispatcher.
Result(S, status) ==
    [S |-> S, status |-> status, rv |-> "none", park |-> FALSE, bg |-> FALSE,
     value |-> NoValue, cas |-> 0, rowId |-> -1, ret |-> TRUE, msg |-> ""]

\* The changes of the store an operation or a dispatcher step makes.
Stores(S) ==
    /\ ht' = S.ht
    /\ towrite' = S.towrite
    /\ accepted' = S.accepted
    /\ casCounter' = S.cas

\* VBucket::addPendingOp
addPendingOp(vbid, cookie) ==
    /\ Len(pendingOps[vbid]) < MaxPending
    /\ pendingOps' = [pendingOps EXCEPT ![vbid] = Append(@, cookie)]

\* EventuallyPersistentStore::bgFetch
bgFetch(key, vbid, rowid, cookie) ==
    /\ Cardinality(bgTasks) < MaxBgFetch
    /\ bgTasks' = bgTasks \cup {[key |-> key, vb |-> vbid, rowid |-> rowid, cookie |-> cookie]}

Background ==
    <<now, vbstate, writing, rejectQueue, fl, rows, notifyTasks, notified, pendingDeletion,
      stats, warmup, disp, test, lk, VBPersist>>

\* A client operation with result r takes effect.
Returns(r, key, vbid, cookie) ==
    /\ r.S.cas <= MaxCas
    /\ Stores(r.S)
    /\ IF r.park THEN addPendingOp(vbid, cookie) ELSE UNCHANGED pendingOps
    /\ IF r.bg THEN bgFetch(key, vbid, r.rowId, cookie) ELSE UNCHANGED bgTasks
    /\ UNCHANGED Background

(***************************************************************************)
(* EventuallyPersistentStore: client operations.  For each operation, xCall *)
(* is what the call computes and returns, and x is the step that takes it.  *)
(***************************************************************************)
\* A fault of set: NOT_FOUND falls through to WAS_CLEAN for a set with cas, too.
setCall_IgnoresCasOp(item, force, hasSpace) ==
    LET state == vbstate[item.vb]
    IN  IF state = "none" \/ state = "dead"
        THEN Result(Store, "NOT_MY_VBUCKET")
        ELSE IF state # "active" /\ state = "replica" /\ ~force
        THEN Result(Store, "NOT_MY_VBUCKET")
        ELSE IF state # "active" /\ state = "pending" /\ ~force
        THEN [Result(Store, "EWOULDBLOCK") EXCEPT !.park = TRUE]
        ELSE LET m == htSet(Store, item, ~force, hasSpace)
             IN  CASE m.rv = "NOMEM" -> [Result(m.S, "ENOMEM") EXCEPT !.rv = m.rv]
                   [] m.rv \in {"INVALID_CAS", "IS_LOCKED"} ->
                          [Result(m.S, "KEY_EEXISTS") EXCEPT !.rv = m.rv]
                   [] m.rv = "WAS_DIRTY" -> [Result(m.S, "SUCCESS") EXCEPT !.rv = m.rv]
                   [] OTHER ->
                          [Result(queueDirty(m.S, item.key, item.vb, "set"), "SUCCESS")
                              EXCEPT !.rv = m.rv]

\* EventuallyPersistentStore::set
setCall(item, force, hasSpace) ==
    LET state == vbstate[item.vb]
    IN  IF state = "none" \/ state = "dead"
        THEN Result(Store, "NOT_MY_VBUCKET")
        ELSE IF state # "active" /\ state = "replica" /\ ~force
        THEN Result(Store, "NOT_MY_VBUCKET")
        ELSE IF state # "active" /\ state = "pending" /\ ~force
        THEN [Result(Store, "EWOULDBLOCK") EXCEPT !.park = TRUE]
        ELSE LET m == htSet(Store, item, ~force, hasSpace)
             IN  CASE m.rv = "NOMEM" -> [Result(m.S, "ENOMEM") EXCEPT !.rv = m.rv]
                   [] m.rv \in {"INVALID_CAS", "IS_LOCKED"} ->
                          [Result(m.S, "KEY_EEXISTS") EXCEPT !.rv = m.rv]
                   [] m.rv = "WAS_DIRTY" -> [Result(m.S, "SUCCESS") EXCEPT !.rv = m.rv]
                   [] m.rv = "NOT_FOUND" /\ item.cas # 0 ->
                          [Result(m.S, "KEY_ENOENT") EXCEPT !.rv = m.rv]
                   [] OTHER ->
                          [Result(queueDirty(m.S, item.key, item.vb, "set"), "SUCCESS")
                              EXCEPT !.rv = m.rv]

set(item, cookie, force, hasSpace) ==
    Returns(setCall(item, force, hasSpace), item.key, item.vb, cookie)

\* A fault of add: the cas of the request is not looked at.
addCall_AcceptsCas(item, hasSpace) ==
    LET state == vbstate[item.vb]
    IN  IF state = "none" \/ state = "dead" \/ state = "replica"
        THEN Result(Store, "NOT_MY_VBUCKET")
        ELSE IF state # "active" /\ state = "pending"
        THEN [Result(Store, "EWOULDBLOCK") EXCEPT !.park = TRUE]
        ELSE LET a == htAdd(Store, item, hasSpace)
             IN  CASE a.rv = "ADD_NOMEM" -> [Result(a.S, "ENOMEM") EXCEPT !.rv = a.rv]
                   [] a.rv = "ADD_EXISTS" -> [Result(a.S, "NOT_STORED") EXCEPT !.rv = a.rv]
                   [] OTHER ->
                          [Result(queueDirty(a.S, item.key, item.vb, "set"), "SUCCESS")
                              EXCEPT !.rv = a.rv]

\* EventuallyPersistentStore::add
addCall(item, hasSpace) ==
    LET state == vbstate[item.vb]
    IN  IF state = "none" \/ state = "dead" \/ state = "replica"
        THEN Result(Store, "NOT_MY_VBUCKET")
        ELSE IF state # "active" /\ state = "pending"
        THEN [Result(Store, "EWOULDBLOCK") EXCEPT !.park = TRUE]
        ELSE IF item.cas # 0
        THEN Result(Store, "NOT_STORED")
        ELSE LET a == htAdd(Store, item, hasSpace)
             IN  CASE a.rv = "ADD_NOMEM" -> [Result(a.S, "ENOMEM") EXCEPT !.rv = a.rv]
                   [] a.rv = "ADD_EXISTS" -> [Result(a.S, "NOT_STORED") EXCEPT !.rv = a.rv]
                   [] OTHER ->
                          [Result(queueDirty(a.S, item.key, item.vb, "set"), "SUCCESS")
                              EXCEPT !.rv = a.rv]

add(item, cookie, hasSpace) ==
    Returns(addCall(item, hasSpace), item.key, item.vb, cookie)

\* EventuallyPersistentStore::get
getCall(key, vbid, queueBG, honorStates) ==
    LET state == vbstate[vbid]
    IN  IF state = "none"
        THEN Result(Store, "NOT_MY_VBUCKET")
        ELSE IF honorStates /\ state = "dead"
        THEN Result(Store, "NOT_MY_VBUCKET")
        ELSE IF state # "active" /\ honorStates /\ state = "replica"
        THEN Result(Store, "NOT_MY_VBUCKET")
        ELSE IF state # "active" /\ honorStates /\ state = "pending"
        THEN [Result(Store, "EWOULDBLOCK") EXCEPT !.park = TRUE]
        ELSE LET f == fetchValidValue(Store, vbid, key, FALSE)
             IN  IF f.v.present
                 THEN IF ~isResident(f.v)
                      THEN [Result(f.S, "EWOULDBLOCK")
                               EXCEPT !.bg = queueBG, !.rowId = f.v.rowId]
                      ELSE [Result(f.S, "SUCCESS")
                               EXCEPT !.value = f.v.value,
                                      !.cas = IF isLocked(f.v, ep_current_time)
                                              THEN -1 ELSE f.v.cas,
                                      !.rowId = f.v.rowId]
                 ELSE Result(f.S, "KEY_ENOENT")

get(key, vbid, cookie, queueBG, honorStates) ==
    Returns(getCall(key, vbid, queueBG, honorStates), key, vbid, cookie)

\* A fault of getLocked: the partition is looked up without the state wanted.
getLockedCall_AnyState(key, vbid, currentTime, lockTimeout) ==
    IF vbstate[vbid] = "none"
    THEN [Result(Store, "NOT_MY_VBUCKET") EXCEPT !.ret = FALSE]
    ELSE LET f == fetchValidValue(Store, vbid, key, FALSE)
         IN  IF f.v.present
             THEN IF isLocked(f.v, currentTime)
                  THEN [Result(f.S, "KEY_ENOENT") EXCEPT !.ret = FALSE]
                  ELSE LET newcas == f.S.cas + 1
                           w == [lock(f.v, currentTime + lockTimeout) EXCEPT !.cas = newcas]
                       IN  [Result([putValue(f.S, vbid, key, w) EXCEPT !.cas = newcas],
                                   "SUCCESS")
                               EXCEPT !.value = f.v.value, !.cas = newcas]
             ELSE Result(f.S, "KEY_ENOENT")

\* EventuallyPersistentStore::getLocked; ret is the value returned, the rest is
\* the GetValue handed to the callback
getLockedCall(key, vbid, currentTime, lockTimeout) ==
    IF vbstate[vbid] # "active"
    THEN [Result(Store, "NOT_MY_VBUCKET") EXCEPT !.ret = FALSE]
    ELSE LET f == fetchValidValue(Store, vbid, key, FALSE)
         IN  IF f.v.present
             THEN IF isLocked(f.v, currentTime)
                  THEN [Result(f.S, "KEY_ENOENT") EXCEPT !.ret = FALSE]
                  ELSE LET newcas == f.S.cas + 1
                           w == [lock(f.v, currentTime + lockTimeout) EXCEPT !.cas = newcas]
                       IN  [Result([putValue(f.S, vbid, key, w) EXCEPT !.cas = newcas],
                                   "SUCCESS")
                               EXCEPT !.value = f.v.value, !.cas = newcas]
             ELSE Result(f.S, "KEY_ENOENT")

getLocked(key, vbid, currentTime, lockTimeout) ==
    Returns(getLockedCall(key, vbid, currentTime, lockTimeout), key, vbid, "")

\* EventuallyPersistentStore::evictKey
evictKeyCall(key, vbid) ==
    IF vbstate[vbid] # "active"
    THEN Result(Store, "NOT_MY_VBUCKET")
    ELSE LET f == fetchValidValue(Store, vbid, key, FALSE)
         IN  IF f.v.present
             THEN IF isResident(f.v)
                  THEN IF canEject(f.v, ep_current_time)
                       THEN [Result(eject(f.S, vbid, key, f.v), "SUCCESS")
                                EXCEPT !.msg = "Ejected."]
                       ELSE [Result(f.S, "SUCCESS")
                                EXCEPT !.msg = "Can't eject: Dirty or a small object."]
                  ELSE [Result(f.S, "SUCCESS") EXCEPT !.msg = "Already ejected."]
             ELSE [Result(f.S, "KEY_ENOENT") EXCEPT !.msg = "Not found."]

evictKey(key, vbid) == Returns(evictKeyCall(key, vbid), key, vbid, "")

\* EventuallyPersistentStore::del
delCall(key, vbid) ==
    LET state == vbstate[vbid]
    IN  IF state = "none" \/ state = "dead"
        THEN Result(Store, "NOT_MY_VBUCKET")
        ELSE IF state # "active" /\ state = "replica"
        THEN Result(Store, "NOT_MY_VBUCKET")
        ELSE IF state # "active" /\ state = "pending"
        THEN [Result(Store, "EWOULDBLOCK") EXCEPT !.park = TRUE]
        ELSE LET d == unlocked_softDelete(Store, vbid, key)
                 S1 == IF d.rv = "NOT_FOUND" THEN d.S
                       ELSE [d.S EXCEPT !.accepted[vbid][key] = Deleted]
             IN  [Result(IF d.rv = "WAS_CLEAN"
                         THEN queueDirty(S1, key, vbid, "del")
                         ELSE S1,
                         IF d.rv = "NOT_FOUND" THEN "KEY_ENOENT" ELSE "SUCCESS")
                     EXCEPT !.rv = d.rv]

del(key, vbid, cookie) == Returns(delCall(key, vbid), key, vbid, cookie)

(***************************************************************************)
(* The backing store (KVStore): rows addressed by rowId.                   *)
(***************************************************************************)
NoRow == [present |-> FALSE]

RowIds == 1..MaxRowId

FreeRowIds(R) == {i \in RowIds : ~R[i].present}

\* KVStore::set: [rows, affected, rowId]
kvSet(R, item, ok) ==
    IF ~ok THEN [rows |-> R, affected |-> -1, rowId |-> 0]
    ELSE IF item.rowId = -1
    THEN IF FreeRowIds(R) = {}
         THEN [rows |-> R, affected |-> -1, rowId |-> 0]
         ELSE LET id == CHOOSE i \in FreeRowIds(R) : \A j \in FreeRowIds(R) : i <= j
              IN  [rows |-> [R EXCEPT ![id] = [present |-> TRUE, vb |-> item.vb,
                                                key |-> item.key, value |-> item.value]],
                   affected |-> 1, rowId |-> id]
    ELSE IF item.rowId \in RowIds /\ R[item.rowId].present
    THEN [rows |-> [R EXCEPT ![item.rowId].value = item.value], affected |-> 1, rowId |-> 0]
    ELSE [rows |-> R, affected |-> 0, rowId |-> 0]

\* KVStore::del: [rows, affected]
kvDel(R, rowid, ok) ==
    IF ~ok THEN [rows |-> R, affected |-> -1]
    ELSE IF rowid \in RowIds /\ R[rowid].present
    THEN [rows |-> [R EXCEPT ![rowid] = NoRow], affected |-> 1]
    ELSE [rows |-> R, affected |-> 0]

\* KVStore::get: [status, value]
kvGet(R, rowid) ==
    IF rowid \in RowIds /\ R[rowid].present
    THEN [status |-> "SUCCESS", value |-> R[rowid].value]
    ELSE [status |-> "KEY_ENOENT", value |-> NoValue]

\* KVStore::reset
kvReset(R) == [i \in RowIds |-> NoRow]

\* KVStore::delVBucket: [rows, ok]
kvDelVBucket(R, vbid, ok) ==
    IF ~ok THEN [rows |-> R, ok |-> FALSE]
    ELSE [rows |-> [i \in RowIds |-> IF R[i].present /\ R[i].vb = vbid THEN NoRow ELSE R[i]],
          ok |-> TRUE]

\* KVStore::setVBState: [states, ok]
kvSetVBState(D, vbid, key, ok) ==
    IF ~ok THEN [states |-> D, ok |-> FALSE]
    ELSE [states |-> [D EXCEPT ![vbid] = key], ok |-> TRUE]

(***************************************************************************)
(* The flusher.                                                            *)
(***************************************************************************)
NoItem == QueuedItem("", 0, "none", 0)

FlusherAt(pc, n) ==
    [pc |-> pc, n |-> n, qi |-> NoItem, io |-> "none", value |-> NoValue, rowid |-> -1,
     dirtied |-> 0, cas |-> 0, ret |-> 0, early |-> FALSE,
     preempts |-> 0, commitFailed |-> 0]

Clients ==
    <<now, vbstate, pendingOps, bgTasks, notifyTasks, notified, pendingDeletion, stats, warmup, disp,
      test, lk, VBPersist>>

\* EventuallyPersistentStore::beginFlush, called by the flusher in state Running
beginFlush ==
    /\ fl.pc = "running"
    /\ ~(towrite = <<>> /\ writing = <<>>)
    /\ writing' = writing \o towrite
    /\ towrite' = <<>>
    /\ fl' = FlusherAt("some", 0)
    /\ UNCHANGED <<ht, accepted, casCounter, rejectQueue, rows>>
    /\ UNCHANGED Clients

\* EventuallyPersistentStore::flushSome: underlying->begin()
flushSomeBegin ==
    /\ fl.pc = "some"
    /\ fl' = FlusherAt("txn", 0)
    /\ UNCHANGED <<ht, towrite, accepted, casCounter, writing, rejectQueue, rows>>
    /\ UNCHANGED Clients

\* EventuallyPersistentStore::flushOneDeleteAll
flushOneDeleteAll ==
    /\ rows' = kvReset(rows)
    /\ fl' = FlusherAt("txn", fl.n + 1)
    /\ UNCHANGED <<ht, towrite, accepted, casCounter, rejectQueue>>

\* invokeOnLockedStoredValue(key, vbid, f, arg), f the name of a method of StoredValue
invokeOnLockedStoredValue(S, key, vbid, f, arg) ==
    IF vbstate[vbid] = "none" THEN S
    ELSE LET v == unlocked_find(S, vbid, key, TRUE)
         IN  IF ~v.present THEN S
             ELSE putValue(S, vbid, key,
                           IF f = "setId" THEN setId(v, arg) ELSE reDirty(v, arg))

\* PersistenceCallback::redirty: the store after it; the caller pushes the queued item
redirty(S, qi, dirtied) ==
    invokeOnLockedStoredValue(S, qi.key, qi.vb, "reDirty", dirtied)

\* PersistenceCallback::callback(mutation_result&): [S, rejected]
setCallback(S, qi, dirtied, affected, newRowId, aboveLowWat) ==
    IF affected = 1
    THEN LET S1 == IF newRowId > 0
                   THEN invokeOnLockedStoredValue(S, qi.key, qi.vb, "setId", newRowId)
                   ELSE S
         IN  IF vbstate[qi.vb] # "none" /\ vbstate[qi.vb] # "active"
             THEN LET f == fetchValidValue(S1, qi.vb, qi.key, TRUE)
                  IN  [S |-> IF f.v.present /\ aboveLowWat /\ canEject(f.v, ep_current_time)
                             THEN eject(f.S, qi.vb, qi.key, f.v)
                             ELSE f.S,
                       rejected |-> FALSE]
             ELSE [S |-> S1, rejected |-> FALSE]
    ELSE IF affected = 0
    THEN [S |-> S, rejected |-> FALSE]
    ELSE [S |-> redirty(S, qi, dirtied), rejected |-> TRUE]

\* A fault of the deletion callback: the tombstone is removed whatever the backing
\* store has answered.
delCallback_OnFailure(S, qi, dirtied, value) ==
    IF vbstate[qi.vb] # "none"
    THEN LET f == fetchValidValue(S, qi.vb, qi.key, TRUE)
         IN  IF f.v.present /\ isDeleted(f.v)
             THEN [S |-> putValue(f.S, qi.vb, qi.key, NoEntry), rejected |-> FALSE]
             ELSE IF f.v.present
             THEN [S |-> putValue(f.S, qi.vb, qi.key, clearId(f.v)), rejected |-> FALSE]
             ELSE [S |-> f.S, rejected |-> FALSE]
    ELSE [S |-> S, rejected |-> FALSE]

\* PersistenceCallback::callback(int&): [S, rejected]
delCallback(S, qi, dirtied, value) ==
    IF value >= 0
    THEN IF vbstate[qi.vb] # "none"
         THEN LET f == fetchValidValue(S, qi.vb, qi.key, TRUE)
              IN  IF f.v.present /\ isDeleted(f.v)
                  THEN [S |-> putValue(f.S, qi.vb, qi.key, NoEntry), rejected |-> FALSE]
                  ELSE IF f.v.present
                  THEN [S |-> putValue(f.S, qi.vb, qi.key, clearId(f.v)), rejected |-> FALSE]
                  ELSE [S |-> f.S, rejected |-> FALSE]
         ELSE [S |-> S, rejected |-> FALSE]
    ELSE [S |-> redirty(S, qi, dirtied), rejected |-> TRUE]

\* A fault of the eligibility test: too young wins over too old.
eligibility_YoungFirst(pendingId, dirtyAge, dataAge, cap, minAge) ==
    IF pendingId THEN [eligible |-> FALSE, ret |-> 0]
    ELSE IF dataAge < minAge THEN [eligible |-> FALSE, ret |-> minAge - dataAge]
    ELSE [eligible |-> TRUE, ret |-> 0]

\* A fault of flushOneDelOrSet: a dirty live value is written whether or not its
\* partition is marked for deletion.
flushOneDelOrSet_WritesThrough(qi) ==
    LET v == ht[qi.vb][qi.key]
    IN  /\ UNCHANGED <<rejectQueue, rows>>
        /\ IF v.present /\ isDirty(v) /\ ~isDeleted(v)
           THEN /\ Stores(putValue(Store, qi.vb, qi.key, markClean(v)))
                /\ fl' = [pc |-> "io", n |-> fl.n + 1, qi |-> qi, io |-> "set",
                          value |-> v.value, rowid |-> v.rowId, dirtied |-> v.dirtied,
                          cas |-> v.cas, ret |-> 0,
                          early |-> FALSE, preempts |-> 0, commitFailed |-> 0]
           ELSE /\ Stores(Store)
                /\ fl' = FlusherAt("txn", fl.n + 1)

\* flushOneDelOrSet: whether a dirty value is written now, and the hint returned
\* for one that is too young: [eligible, ret]
eligibility(pendingId, dirtyAge, dataAge, cap, minAge) ==
    IF pendingId THEN [eligible |-> FALSE, ret |-> 0]
    ELSE IF dirtyAge > cap THEN [eligible |-> TRUE, ret |-> 0]
    ELSE IF dataAge < minAge THEN [eligible |-> FALSE, ret |-> minAge - dataAge]
    ELSE [eligible |-> TRUE, ret |-> 0]

\* EventuallyPersistentStore::flushOneDelOrSet up to lh.unlock(), and the
\* branches after it that call no backing store
flushOneDelOrSet(qi) ==
    IF vbstate[qi.vb] = "none"
    THEN /\ fl' = FlusherAt("txn", fl.n + 1)
         /\ UNCHANGED <<ht, towrite, accepted, casCounter, rejectQueue, rows>>
    ELSE
    LET f == fetchValidValue(Store, qi.vb, qi.key, TRUE)
        v == f.v
        rowid == IF v.present THEN v.rowId ELSE -1
        found == v.present
        deleted == found /\ isDeleted(v)
        isDirty0 == found /\ isDirty(v)
        queued == qi.dirtied
        flushExpired == isDirty0 /\ isExpired(v, ep_real_time + itemExpiryWindow)
        isDirty1 == isDirty0 /\ ~flushExpired
        dirtied == IF isDirty0 THEN v.dirtied ELSE 0
        dataAge == ep_current_time - dirtied
        dirtyAge == ep_current_time - queued
        e == eligibility(isPendingId(v), dirtyAge, dataAge,
                         stats.queue_age_cap, stats.min_data_age)
        eligible == e.eligible
        ret == IF isDirty1 THEN e.ret ELSE 0
        Done == [FlusherAt("txn", fl.n + 1) EXCEPT !.ret = ret]
        isDirty2 == isDirty1 /\ eligible
        w == IF flushExpired THEN markClean(v)
             ELSE IF isDirty1 /\ eligible
             THEN (IF rowid = -1 THEN setPendingId(markClean(v)) ELSE markClean(v))
             ELSE IF isDirty1 THEN reDirty(markClean(v), dirtied)
             ELSE v
        S1 == IF found THEN putValue(f.S, qi.vb, qi.key, w) ELSE f.S
        rejects == IF isDirty1 /\ ~eligible THEN Append(rejectQueue, qi) ELSE rejectQueue
    IN  /\ rejectQueue' = rejects
        /\ UNCHANGED rows
        /\ IF isDirty2 /\ ~deleted
           THEN IF qi.vb \in pendingDeletion
                THEN /\ Stores([S1 EXCEPT !.towrite = Append(@, qi)])
                     /\ fl' = Done
                ELSE /\ Stores(S1)
                     /\ fl' = [pc |-> "io", n |-> fl.n + 1, qi |-> qi, io |-> "set",
                               value |-> v.value, rowid |-> rowid, dirtied |-> dirtied,
                               cas |-> v.cas, ret |-> ret,
                               early |-> FALSE, preempts |-> 0, commitFailed |-> 0]
           ELSE IF deleted
           THEN IF rowid > 0
                THEN /\ Stores(S1)
                     /\ fl' = [pc |-> "io", n |-> fl.n + 1, qi |-> qi, io |-> "del",
                               value |-> NoValue, rowid |-> rowid, dirtied |-> dirtied,
                               cas |-> v.cas, ret |-> ret,
                               early |-> FALSE, preempts |-> 0, commitFailed |-> 0]
                ELSE /\ Stores(delCallback(S1, qi, dirtied, 0).S)
                     /\ fl' = Done
           ELSE /\ Stores(S1)
                /\ fl' = Done

\* A fault of the loop of flushSome: it goes on while a background fetch waits.
flushOne_IgnoresFetch ==
    /\ fl.pc = "txn"
    /\ fl.n < txnSize /\ writing # <<>>
    /\ writing' = Tail(writing)
    /\ IF Head(writing).op = "flush"
       THEN flushOneDeleteAll
       ELSE flushOneDelOrSet(Head(writing))
    /\ UNCHANGED Clients

\* EventuallyPersistentStore::flushOne, one turn of the loop of flushSome
flushOne ==
    /\ fl.pc = "txn"
    /\ fl.n < txnSize /\ writing # <<>> /\ bgTasks = {}
    /\ writing' = Tail(writing)
    /\ IF Head(writing).op = "flush"
       THEN flushOneDeleteAll
       ELSE flushOneDelOrSet(Head(writing))
    /\ UNCHANGED Clients

\* flushOneDelOrSet: underlying->set(*val, cb) and the callback it invokes
flushSet(ok, aboveLowWat) ==
    /\ fl.pc = "io" /\ fl.io = "set"
    /\ LET item == [vb |-> fl.qi.vb, key |-> fl.qi.key, value |-> fl.value,
                    rowId |-> fl.rowid]
           r == kvSet(rows, item, ok)
           c == setCallback(Store, fl.qi, fl.dirtied, r.affected, r.rowId, aboveLowWat)
       IN  /\ rows' = r.rows
           /\ Stores(c.S)
           /\ rejectQueue' = IF c.rejected THEN Append(rejectQueue, fl.qi) ELSE rejectQueue
    /\ fl' = FlusherAt("txn", fl.n)
    /\ UNCHANGED writing
    /\ UNCHANGED Clients

\* flushOneDelOrSet: underlying->del(key, rowid, cb) and the callback it invokes
flushDel(ok) ==
    /\ fl.pc = "io" /\ fl.io = "del"
    /\ LET r == kvDel(rows, fl.rowid, ok)
           c == delCallback(Store, fl.qi, fl.dirtied, r.affected)
       IN  /\ rows' = r.rows
           /\ Stores(c.S)
           /\ rejectQueue' = IF c.rejected THEN Append(rejectQueue, fl.qi) ELSE rejectQueue
    /\ fl' = FlusherAt("txn", fl.n)
    /\ UNCHANGED writing
    /\ UNCHANGED Clients

\* EventuallyPersistentStore::flushSome: the test that ends the loop.  fl.early
\* records that the loop has ended because a background fetch waited while the
\* batch was not full and the queue not empty
flushSomeEnd ==
    /\ fl.pc = "txn"
    /\ ~(fl.n < txnSize /\ writing # <<>> /\ bgTasks = {})
    /\ fl' = [FlusherAt("commit", fl.n)
                 EXCEPT !.early = fl.n < txnSize /\ writing # <<>>]
    /\ UNCHANGED <<ht, towrite, accepted, casCounter, writing, rejectQueue, rows>>
    /\ UNCHANGED Clients

\* EventuallyPersistentStore::flushSome after its loop: before the first commit the
\* preempt is counted if a background fetch waits; underlying->commit() is tried,
\* and after a failed commit the flusher sleeps, counts it and tries again.
\* fl.preempts and fl.commitFailed are what the call has added to
\* stats.flusherPreempts and stats.commitFailed; they are kept until the flusher's
\* next step
flushSomeCommit(ok) ==
    /\ fl.pc = "commit"
    /\ LET preempts == IF fl.commitFailed > 0 THEN fl.preempts
                       ELSE IF bgTasks # {} THEN 1 ELSE 0
       IN  IF ok
           THEN fl' = [FlusherAt(IF writing = <<>> THEN "complete" ELSE "some", 0)
                          EXCEPT !.early = fl.early, !.preempts = preempts,
                                 !.commitFailed = fl.commitFailed]
           ELSE /\ fl.commitFailed < MaxCommitFailed
                /\ fl' = [fl EXCEPT !.preempts = preempts, !.commitFailed = @ + 1]
    /\ UNCHANGED <<ht, towrite, accepted, casCounter, writing, rejectQueue, rows>>
    /\ UNCHANGED Clients

\* EventuallyPersistentStore::completeFlush
completeFlush ==
    /\ fl.pc = "complete"
    /\ writing' = writing \o rejectQueue
    /\ rejectQueue' = <<>>
    /\ fl' = FlusherAt("running", 0)
    /\ UNCHANGED <<ht, towrite, accepted, casCounter, rows>>
    /\ UNCHANGED Clients

(***************************************************************************)
(* Dispatcher tasks other than the flusher.                                *)
(***************************************************************************)
Flusher == <<writing, rejectQueue, fl>>

\* EventuallyPersistentStore::completeBGFetch, run by BGFetchCallback on the I/O
\* dispatcher: its one worker runs it between two flushSome calls of the flusher
completeBGFetch(t) ==
    /\ t \in bgTasks
    /\ fl.pc \in {"running", "some"}
    /\ bgTasks' = bgTasks \ {t}
    /\ LET gcb == kvGet(rows, t.rowid)
       IN  /\ IF vbstate[t.vb] = "active" /\ gcb.status = "SUCCESS"
              THEN LET f == fetchValidValue(Store, t.vb, t.key, FALSE)
                   IN  IF f.v.present /\ ~isResident(f.v)
                       THEN Stores(putValue(f.S, t.vb, t.key, restoreValue(f.v, gcb.value)))
                       ELSE Stores(f.S)
              ELSE Stores(Store)
           /\ notified' = notified \cup {[cookie |-> t.cookie, status |-> gcb.status]}
    /\ UNCHANGED Flusher
    /\ UNCHANGED <<now, vbstate, pendingOps, notifyTasks, pendingDeletion, rows, stats, warmup, disp,
                   test, lk, VBPersist>>

\* VBucket::fireAllOps, run by NotifyVBStateChangeCallback
fireAllOps(vbid) ==
    /\ notifyTasks[vbid] > 0
    /\ notifyTasks' = [notifyTasks EXCEPT ![vbid] = @ - 1]
    /\ IF vbstate[vbid] = "pending"
       THEN UNCHANGED <<pendingOps, notified>>
       ELSE /\ pendingOps' = [pendingOps EXCEPT ![vbid] = <<>>]
            /\ notified' = notified \cup
                 {[cookie |-> pendingOps[vbid][i],
                   status |-> IF vbstate[vbid] = "active" THEN "SUCCESS" ELSE "NOT_MY_VBUCKET"] :
                  i \in 1..Len(pendingOps[vbid])}
    /\ UNCHANGED Flusher
    /\ UNCHANGED <<ht, towrite, accepted, casCounter>>
    /\ UNCHANGED <<now, vbstate, bgTasks, pendingDeletion, rows, stats, warmup, disp, test, lk, VBPersist>>

(***************************************************************************)
(* Partition life cycle and reset.                                         *)
(***************************************************************************)
EmptyTable == [k \in Keys |-> NoEntry]

\* A SetVBStateCallback
SetVBStateCallback(vbid, key, retry) == [vbid |-> vbid, key |-> key, retry |-> retry]

\* Dispatcher::schedule of a SetVBStateCallback with delay 0: the task wakes after
\* the tasks scheduled before it with delay 0, and before or after a retry that
\* waits for its 5 seconds, as the time of the call has it
scheduleSetVBState(q, t) ==
    LET fresh == {i \in 1..Len(q) : ~q[i].retry}
        last == IF fresh = {} THEN 0 ELSE CHOOSE i \in fresh : \A j \in fresh : j <= i
    IN  {SubSeq(q, 1, i - 1) \o <<t>> \o SubSeq(q, i, Len(q)) : i \in (last + 1)..(Len(q) + 1)}

\* A fault of setVBucketState: no NotifyVBStateChangeCallback is scheduled.
setVBucketState_NoNotify(vbid, to) ==
    /\ IF vbstate[vbid] # "none"
       THEN /\ Len(setTasks) < MaxPersist
            /\ vbstate' = [vbstate EXCEPT ![vbid] = to]
            /\ setTasks' \in scheduleSetVBState(setTasks, SetVBStateCallback(vbid, to, FALSE))
            /\ UNCHANGED <<ht, accepted>>
       ELSE /\ vbstate' = [vbstate EXCEPT ![vbid] = to]
            /\ ht' = [ht EXCEPT ![vbid] = EmptyTable]
            /\ accepted' = [accepted EXCEPT ![vbid] = [k \in Keys |-> NoValue]]
            /\ UNCHANGED setTasks
    /\ UNCHANGED notifyTasks
    /\ UNCHANGED <<writing, rejectQueue, fl>>
    /\ UNCHANGED <<now, pendingOps, towrite, casCounter, bgTasks, notified, pendingDeletion,
                   rows, stats, warmup, disp, test, lk, deleting, delTasks, vbDisk>>

\* EventuallyPersistentStore::setVBucketState; the state handed to the callback is
\* the string VBucket::toString(to), which names the state
setVBucketState(vbid, to) ==
    /\ IF vbstate[vbid] # "none"
       THEN /\ notifyTasks[vbid] < MaxNotify
            /\ Len(setTasks) < MaxPersist
            /\ vbstate' = [vbstate EXCEPT ![vbid] = to]
            /\ notifyTasks' = [notifyTasks EXCEPT ![vbid] = @ + 1]
            /\ setTasks' \in scheduleSetVBState(setTasks, SetVBStateCallback(vbid, to, FALSE))
            /\ UNCHANGED <<ht, accepted>>
       ELSE /\ vbstate' = [vbstate EXCEPT ![vbid] = to]
            /\ ht' = [ht EXCEPT ![vbid] = EmptyTable]
            /\ accepted' = [accepted EXCEPT ![vbid] = [k \in Keys |-> NoValue]]
            /\ UNCHANGED <<notifyTasks, setTasks>>
    /\ UNCHANGED Flusher
    /\ UNCHANGED <<now, pendingOps, towrite, casCounter, bgTasks, notified, pendingDeletion,
                   rows, stats, warmup, disp, test, lk, deleting, delTasks, vbDisk>>

\* EventuallyPersistentStore::completeSetVBState, run by SetVBStateCallback on the
\* I/O dispatcher between two flushSome calls of the flusher; when the backing
\* store fails the callback is scheduled again with a delay of 5 seconds
completeSetVBState(ok) ==
    /\ setTasks # <<>>
    /\ fl.pc \in {"running", "some"}
    /\ LET t == Head(setTasks)
           r == kvSetVBState(vbDisk, t.vbid, t.key, ok)
       IN  /\ vbDisk' = r.states
           /\ setTasks' = IF r.ok THEN Tail(setTasks)
                          ELSE Append(Tail(setTasks), SetVBStateCallback(t.vbid, t.key, TRUE))
    /\ UNCHANGED Flusher
    /\ UNCHANGED <<now, vbstate, pendingOps, ht, towrite, casCounter, bgTasks, notifyTasks,
                   notified, pendingDeletion, accepted, rows, stats, warmup, disp, test, lk,
                   deleting, delTasks>>

\* A fault of reset: the table of every partition is emptied, whatever its state.
reset_EveryPartition ==
    LET cleared == [Store EXCEPT
                      !.ht = [vb \in VBids |-> EmptyTable],
                      !.accepted = [vb \in VBids |-> [k \in Keys |-> NoValue]]]
    IN  /\ Len(towrite) < MaxQueue
        /\ Stores(queueDirty(cleared, "", 0, "flush"))
        /\ UNCHANGED Background
        /\ UNCHANGED <<pendingOps, bgTasks>>

\* EventuallyPersistentStore::deleteVBucket up to lh.unlock(): the state of the
\* partition is checked under vbsetMutex; a call that finds no dead partition
\* returns false
deleteVBucket(vbid) ==
    /\ IF vbstate[vbid] = "dead"
       THEN /\ deleting[vbid] < MaxDeleters
            /\ deleting' = [deleting EXCEPT ![vbid] = @ + 1]
       ELSE UNCHANGED deleting
    /\ UNCHANGED Flusher
    /\ UNCHANGED <<now, vbstate, pendingOps, ht, towrite, casCounter, bgTasks, notifyTasks,
                   notified, pendingDeletion, accepted, rows, stats, warmup, disp, test, lk,
                   delTasks, setTasks, vbDisk>>

\* EventuallyPersistentStore::deleteVBucket after lh.unlock(): the id is marked
\* for deletion, the partition leaves the table, a VBucketDeletionCallback is
\* scheduled and the call returns true
deleteVBucket_removeBucket(vbid) ==
    /\ deleting[vbid] > 0
    /\ delTasks[vbid] < MaxDelTasks
    /\ deleting' = [deleting EXCEPT ![vbid] = @ - 1]
    /\ pendingDeletion' = pendingDeletion \cup {vbid}
    /\ vbstate' = [vbstate EXCEPT ![vbid] = "none"]
    /\ ht' = [ht EXCEPT ![vbid] = EmptyTable]
    /\ accepted' = [accepted EXCEPT ![vbid] = [k \in Keys |-> NoValue]]
    /\ delTasks' = [delTasks EXCEPT ![vbid] = @ + 1]
    /\ UNCHANGED Flusher
    /\ UNCHANGED <<now, pendingOps, towrite, casCounter, bgTasks, notifyTasks, notified,
                   rows, stats, warmup, disp, test, lk, setTasks, vbDisk>>

\* A fault of completeVBucketDeletion: the rows are deleted whatever the state of
\* the partition.
completeVBucketDeletion_Unchecked(vbid, ok) ==
    /\ delTasks[vbid] > 0
    /\ fl.pc \in {"running", "some"}
    /\ LET r == kvDelVBucket(rows, vbid, ok)
       IN  /\ rows' = r.rows
           /\ pendingDeletion' = IF r.ok THEN pendingDeletion \ {vbid} ELSE pendingDeletion
           /\ delTasks' = IF r.ok THEN [delTasks EXCEPT ![vbid] = @ - 1] ELSE delTasks
    /\ UNCHANGED Flusher
    /\ UNCHANGED <<now, vbstate, pendingOps, ht, towrite, casCounter, bgTasks, notifyTasks,
                   notified, accepted, stats, warmup, disp, test, lk, deleting, setTasks, vbDisk>>

\* EventuallyPersistentStore::completeVBucketDeletion, run by VBucketDeletionCallback
\* on the I/O dispatcher between two flushSome calls of the flusher; when the
\* backing store fails the callback is scheduled again
completeVBucketDeletion(vbid, ok) ==
    /\ delTasks[vbid] > 0
    /\ fl.pc \in {"running", "some"}
    /\ IF vbstate[vbid] = "none" \/ vbstate[vbid] = "dead" \/ vbid \in pendingDeletion
       THEN LET r == kvDelVBucket(rows, vbid, ok)
            IN  /\ rows' = r.rows
                /\ pendingDeletion' = IF r.ok THEN pendingDeletion \ {vbid}
                                      ELSE pendingDeletion
                /\ delTasks' = IF r.ok THEN [delTasks EXCEPT ![vbid] = @ - 1] ELSE delTasks
       ELSE /\ delTasks' = [delTasks EXCEPT ![vbid] = @ - 1]
            /\ UNCHANGED <<rows, pendingDeletion>>
    /\ UNCHANGED Flusher
    /\ UNCHANGED <<now, vbstate, pendingOps, ht, towrite, casCounter, bgTasks, notifyTasks,
                   notified, accepted, stats, warmup, disp, test, lk, deleting, setTasks, vbDisk>>

\* EventuallyPersistentStore::reset
reset ==
    LET cleared == [Store EXCEPT
                      !.ht = [vb \in VBids |->
                                IF vbstate[vb] = "active" THEN EmptyTable ELSE @[vb]],
                      !.accepted = [vb \in VBids |->
                                      IF vbstate[vb] = "active"
                                      THEN [k \in Keys |-> NoValue] ELSE @[vb]]]
    IN  /\ Len(towrite) < MaxQueue
        /\ Stores(queueDirty(cleared, "", 0, "flush"))
        /\ UNCHANGED Background
        /\ UNCHANGED <<pendingOps, bgTasks>>

\* EventuallyPersistentStore::setMinDataAge
setMinDataAge(to) ==
    /\ stats' = [stats EXCEPT !.min_data_age = to]
    /\ UNCHANGED <<now, vbstate, pendingOps, ht, casCounter, towrite, writing, rejectQueue, fl,
                   rows, bgTasks, notifyTasks, notified, pendingDeletion, accepted, warmup, disp,
                   test, lk, VBPersist>>

\* EventuallyPersistentStore::setQueueAgeCap
setQueueAgeCap(to) ==
    /\ stats' = [stats EXCEPT !.queue_age_cap = to]
    /\ UNCHANGED <<now, vbstate, pendingOps, ht, casCounter, towrite, writing, rejectQueue, fl,
                   rows, bgTasks, notifyTasks, notified, pendingDeletion, accepted, warmup, disp,
                   test, lk, VBPersist>>

\* The clock behind ep_current_time advances.
Tick ==
    /\ now < MaxTime
    /\ now' = now + 1
    /\ UNCHANGED <<vbstate, pendingOps, ht, casCounter, towrite, writing, rejectQueue, fl, rows,
                   bgTasks, notifyTasks, notified, pendingDeletion, accepted, stats, warmup, disp,
                   test, lk, VBPersist>>

(***************************************************************************)
(* The Dispatcher (modelled from section 4.A of the specification) and the *)
(* program that tests it, src/t/dispatcher_test.cc.                        *)
(***************************************************************************)
MaxDClock == 3
MaxOther == 1
MaxAgain == 1

\* Priority::BgFetcherPriority, FlusherPriority, VBucketDeletionPriority, and
\* the priority of a task of another client
BgFetcherPriority == 0
FlusherPriority == 2
VBucketDeletionPriority == 1
OtherPriority == 3

\* the argument of t.start(3) in main
sleeptime3 == 3

\* while (callbacks < expected_num_callbacks), before and after the stop
expected_num_callbacks == 3
expected_after_stop == 1

TestTasks == 6
TaskIds == 1..(TestTasks + MaxOther)
NoTask == 0

Engine ==
    <<now, vbstate, pendingOps, ht, casCounter, towrite, writing, rejectQueue, fl, rows,
      bgTasks, notifyTasks, notified, pendingDeletion, accepted, stats, warmup, lk, VBPersist>>

\* Dispatcher::Dispatcher
NewDispatcher ==
    [state |-> "init", clock |-> 0, queue |-> {}, running |-> NoTask,
     tasks |-> [id \in TaskIds |-> [scheduled |-> FALSE]], nextId |-> 1]

\* Dispatcher::schedule(callback, outtid, priority, sleeptime, mayReschedule): the
\* callback is given by the number of times it returns true (again) and by
\* whether it is a TestCallback
schedule(D, again, isTest, priority, sleeptime, mayReschedule) ==
    [D EXCEPT !.tasks[D.nextId] = [scheduled |-> TRUE, again |-> again, test |-> isTest,
                                   prio |-> priority, snooze |-> sleeptime,
                                   may |-> mayReschedule],
              !.queue = @ \cup {[id |-> D.nextId, runAt |-> D.clock + sleeptime]},
              !.nextId = @ + 1]

\* The order of the queue: runAt, then priority, then submission.
Before(D, a, b) ==
    \/ a.runAt < b.runAt
    \/ a.runAt = b.runAt /\ D.tasks[a.id].prio < D.tasks[b.id].prio
    \/ a.runAt = b.runAt /\ D.tasks[a.id].prio = D.tasks[b.id].prio /\ a.id < b.id

First(D) == CHOOSE a \in D.queue : \A b \in D.queue \ {a} : Before(D, a, b)

\* main: dispatcher.start()
Dispatcher_start ==
    /\ test.pc = "start"
    /\ disp' = [disp EXCEPT !.state = "running"]
    /\ test' = [test EXCEPT !.pc = "t.start()"]
    /\ UNCHANGED Engine

\* Thing::start(sleeptime), one call of dispatcher.schedule at a time
Thing_start(at, sleeptime, next) ==
    /\ test.pc = at
    /\ disp' = CASE test.n = 0 ->
                     schedule(disp, 0, TRUE, BgFetcherPriority, sleeptime, TRUE)
                [] test.n = 1 ->
                     schedule(disp, 0, TRUE, FlusherPriority, sleeptime, TRUE)
                [] OTHER ->
                     schedule(disp, 0, TRUE, VBucketDeletionPriority, 0, FALSE)
    /\ test' = IF test.n = 2
               THEN [test EXCEPT !.pc = next, !.n = 0]
               ELSE [test EXCEPT !.n = @ + 1]
    /\ UNCHANGED Engine

\* main: the loop that waits for the callbacks, the comparison after it, and
\* callbacks = 0
mainWait ==
    /\ test.pc = "wait"
    /\ ~(test.callbacks < expected_num_callbacks)
    /\ test' = IF test.callbacks # expected_num_callbacks
               THEN [test EXCEPT !.pc = "return 1"]
               ELSE [test EXCEPT !.pc = "t.start(3)", !.callbacks = 0]
    /\ UNCHANGED <<disp>>
    /\ UNCHANGED Engine

\* Dispatcher::stop, called by main: the shutdown is signalled
Dispatcher_stop ==
    /\ test.pc = "stop"
    /\ disp' = [disp EXCEPT !.state = IF @ = "running" THEN "stopping" ELSE @]
    /\ test' = [test EXCEPT !.pc = "join"]
    /\ UNCHANGED Engine

\* Dispatcher::stop returns when the worker has exited; main compares callbacks
stopReturns ==
    /\ test.pc = "join"
    /\ disp.state = "stopped"
    /\ test' = [test EXCEPT !.pc = IF test.callbacks # expected_after_stop
                                   THEN "return 1 after stop" ELSE "return 0"]
    /\ UNCHANGED <<disp>>
    /\ UNCHANGED Engine

\* A task of another client of the dispatcher, with a callback that returns true
\* again times.
otherSchedule(again, sleeptime, mayReschedule) ==
    /\ disp.state = "running"
    /\ Cardinality({id \in TaskIds : disp.tasks[id].scheduled /\ ~disp.tasks[id].test})
          < MaxOther
    /\ disp.nextId \in TaskIds
    /\ disp' = schedule(disp, again, FALSE, OtherPriority, sleeptime, mayReschedule)
    /\ UNCHANGED <<test>>
    /\ UNCHANGED Engine

\* The worker of the dispatcher takes the first task of the queue, which is due.
taskBegin ==
    /\ disp.state = "running"
    /\ disp.running = NoTask
    /\ disp.queue # {}
    /\ First(disp).runAt <= disp.clock
    /\ disp' = [disp EXCEPT !.queue = @ \ {First(disp)}, !.running = First(disp).id]
    /\ UNCHANGED <<test>>
    /\ UNCHANGED Engine

\* A fault of the worker: a task whose callback returns true is inserted again
\* whatever mayReschedule was.
taskEnd_IgnoresMay ==
    /\ disp.running # NoTask
    /\ LET id == disp.running
           t == disp.tasks[id]
           ret == test.invoked[id] < t.again
       IN  /\ test' = [test EXCEPT !.invoked[id] = @ + 1,
                                    !.callbacks = IF t.test THEN @ + 1 ELSE @]
           /\ disp' = [disp EXCEPT
                         !.running = NoTask,
                         !.queue = IF ret
                                   THEN @ \cup {[id |-> id, runAt |-> disp.clock + t.snooze]}
                                   ELSE @]
    /\ UNCHANGED Engine

\* TestCallback::callback and Thing::doSomething, or the callback of another
\* client, and what the worker does with the value it returns
taskEnd ==
    /\ disp.running # NoTask
    /\ LET id == disp.running
           t == disp.tasks[id]
           ret == test.invoked[id] < t.again
       IN  /\ test' = [test EXCEPT !.invoked[id] = @ + 1,
                                    !.callbacks = IF t.test THEN @ + 1 ELSE @]
           /\ disp' = [disp EXCEPT
                         !.running = NoTask,
                         !.queue = IF ret /\ t.may
                                   THEN @ \cup {[id |-> id, runAt |-> disp.clock + t.snooze]}
                                   ELSE @]
    /\ UNCHANGED Engine

\* The worker, told to stop and with no task running, exits.
workerExit ==
    /\ disp.state = "stopping"
    /\ disp.running = NoTask
    /\ disp' = [disp EXCEPT !.state = "stopped"]
    /\ UNCHANGED <<test>>
    /\ UNCHANGED Engine

\* The clock of the dispatcher advances.
clockTick ==
    /\ disp.clock < MaxDClock
    /\ disp' = [disp EXCEPT !.clock = @ + 1]
    /\ UNCHANGED <<test>>
    /\ UNCHANGED Engine

(***************************************************************************)
(* The system.                                                             *)
(***************************************************************************)
(***************************************************************************)
(* The mutexes of the store.  A code path is the sequence of its LockHolder  *)
(* constructions, unlocks and scope ends and of its calls of the backing     *)
(* store, in the order of the source.                                        *)
(***************************************************************************)
\* The worker threads of memcached that call the store, and the one worker of
\* the I/O dispatcher.
Threads == {"client 1", "client 2", "dispatcher"}

\* The bucket mutexes of the hash table of a partition.
Buckets == {0, 1}

getMutex(bucket_num) == IF bucket_num = 0 THEN "ht.getMutex(0)" ELSE "ht.getMutex(1)"

\* LockHolder lh(m), and HashTable's own lock of the bucket of a key
Acquire(m) == [a |-> "lock", m |-> m]

\* lh.unlock(), and the end of the scope of a LockHolder
Release(m) == [a |-> "unlock", m |-> m]

\* A call of the backing store: underlying->get, set, del, delVBucket
Underlying(call) == [a |-> "underlying", m |-> call]

Idle == [op |-> "", path |-> <<>>, pc |-> 0, held |-> <<>>]

\* EventuallyPersistentStore::get, evictKey, getLocked, getKeyStats: the bucket of
\* the key is locked for the whole lookup; and HashTable::set, add, softDelete,
\* called by set, add and del of the store
get_path(bucket_num) ==
    <<Acquire(getMutex(bucket_num)), Release(getMutex(bucket_num))>>

\* EventuallyPersistentStore::setVBucketState
setVBucketState_path == <<Acquire("vbsetMutex"), Release("vbsetMutex")>>

\* EventuallyPersistentStore::deleteVBucket
deleteVBucket_path == <<Acquire("vbsetMutex"), Release("vbsetMutex")>>

\* EventuallyPersistentStore::completeVBucketDeletion; deletes: the partition is
\* absent, dead or marked for deletion
completeVBucketDeletion_path(deletes) ==
    IF deletes
    THEN <<Acquire("vbsetMutex"), Release("vbsetMutex"), Underlying("delVBucket")>>
    ELSE <<Acquire("vbsetMutex"), Release("vbsetMutex")>>

\* A fault of completeBGFetch: the bucket is locked before the partition table.
completeBGFetch_BucketFirst(bucket_num, restore) ==
    <<Underlying("get"), Acquire(getMutex(bucket_num)), Acquire("vbsetMutex"),
      Release(getMutex(bucket_num)), Release("vbsetMutex")>>

\* EventuallyPersistentStore::completeBGFetch; restore: the partition is active
\* and the read succeeded
completeBGFetch_path(bucket_num, restore) ==
    IF restore
    THEN <<Underlying("get"), Acquire("vbsetMutex"), Acquire(getMutex(bucket_num)),
           Release(getMutex(bucket_num)), Release("vbsetMutex")>>
    ELSE <<Underlying("get"), Acquire("vbsetMutex"), Release("vbsetMutex")>>

\* A fault of flushOneDelOrSet: the bucket stays locked over the backing store.
flushOneDelOrSet_HoldsLock(bucket_num, io) ==
    <<Acquire(getMutex(bucket_num)), Underlying(io),
      Acquire(getMutex(bucket_num)), Release(getMutex(bucket_num)),
      Release(getMutex(bucket_num))>>

\* EventuallyPersistentStore::flushOneDelOrSet with the PersistenceCallback of its
\* write; io: "set", "del", or "none" for an entry that is not written
flushOneDelOrSet_path(bucket_num, io) ==
    IF io = "none"
    THEN <<Acquire(getMutex(bucket_num)), Release(getMutex(bucket_num))>>
    ELSE <<Acquire(getMutex(bucket_num)), Release(getMutex(bucket_num)),
           Underlying(io),
           Acquire(getMutex(bucket_num)), Release(getMutex(bucket_num))>>

\* The code paths a thread can enter: [op, path]
Paths(t) ==
    IF t # "dispatcher"
    THEN {[op |-> "get", path |-> get_path(b)] : b \in Buckets}
         \cup {[op |-> "set", path |-> get_path(b)] : b \in Buckets}
         \cup {[op |-> "setVBucketState", path |-> setVBucketState_path],
               [op |-> "deleteVBucket", path |-> deleteVBucket_path]}
    ELSE {[op |-> "flushOneDelOrSet", path |-> flushOneDelOrSet_path(b, io)] :
             b \in Buckets, io \in {"none", "set", "del"}}
         \cup {[op |-> "completeBGFetch", path |-> completeBGFetch_path(b, restore)] :
                  b \in Buckets, restore \in BOOLEAN}
         \cup {[op |-> "completeVBucketDeletion", path |-> completeVBucketDeletion_path(d)] :
                  d \in BOOLEAN}

\* The thread that holds mutex m, if any.
Owners(m) == {t \in Threads : \E i \in 1..Len(lk[t].held) : lk[t].held[i] = m}

\* The step thread t is at.
AtStep(t) == lk[t].path[lk[t].pc]

\* The step of t is done: the next one, or the end of the code path.
Advance(t, held) ==
    IF lk[t].pc = Len(lk[t].path)
    THEN [lk EXCEPT ![t] = Idle]
    ELSE [lk EXCEPT ![t].pc = @ + 1, ![t].held = held]

Data ==
    <<now, vbstate, pendingOps, ht, casCounter, towrite, writing, rejectQueue, fl, rows,
      bgTasks, notifyTasks, notified, pendingDeletion, accepted, stats, warmup, disp, test,
      VBPersist>>

\* A thread enters a code path.
enter(t) ==
    /\ lk[t].pc = 0
    /\ \E p \in Paths(t) : lk' = [lk EXCEPT ![t] = [op |-> p.op, path |-> p.path, pc |-> 1,
                                                    held |-> <<>>]]
    /\ UNCHANGED Data

\* LockHolder::lock: the thread waits while the mutex is held, also by itself
LockHolder_lock(t) ==
    /\ lk[t].pc > 0 /\ AtStep(t).a = "lock"
    /\ Owners(AtStep(t).m) = {}
    /\ lk' = Advance(t, Append(lk[t].held, AtStep(t).m))
    /\ UNCHANGED Data

\* LockHolder::unlock
LockHolder_unlock(t) ==
    /\ lk[t].pc > 0 /\ AtStep(t).a = "unlock"
    /\ LET Other(m) == m # AtStep(t).m
       IN  lk' = Advance(t, SelectSeq(lk[t].held, Other))
    /\ UNCHANGED Data

\* The call of the backing store returns.
underlying(t) ==
    /\ lk[t].pc > 0 /\ AtStep(t).a = "underlying"
    /\ lk' = Advance(t, lk[t].held)
    /\ UNCHANGED Data

(***************************************************************************)
(* Warm-up: the records the backing store dumps at start-up.               *)
(***************************************************************************)
\* HashTable::add(item, isDirty = false, storeVal = retain), the add of a record
\* read from the backing store: [S, rv]
htAddStored(S, item, retain, hasSpace) ==
    LET v == unlocked_find(S, item.vb, item.key, TRUE)
        new == [NewStoredValue(item.value, 0, 0, ep_current_time)
                   EXCEPT !.dirty = FALSE, !.rowId = item.rowId]
        w == IF retain THEN new ELSE ejectValue(new)
        stored == [putValue(S, item.vb, item.key, w)
                      EXCEPT !.accepted[item.vb][item.key] = item.value]
    IN  IF ~hasSpace THEN [S |-> S, rv |-> "ADD_NOMEM"]
        ELSE IF v.present /\ ~isDeleted(v) THEN [S |-> S, rv |-> "ADD_EXISTS"]
        ELSE IF v.present THEN [S |-> stored, rv |-> "ADD_UNDEL"]
        ELSE [S |-> stored, rv |-> "ADD_SUCCESS"]

\* LoadStorageKVPairCallback::purge: the store after it
purge(S) ==
    [S EXCEPT !.ht = [vb \in VBids |-> [k \in Keys |->
                        IF /\ vbstate[vb] # "none"
                           /\ @[vb][k].present
                           /\ canEject(@[vb][k], ep_current_time)
                        THEN ejectValue(@[vb][k])
                        ELSE @[vb][k]]]]

\* The GetValue of a dump: a record of the backing store, or no item (value
\* NoValue)
Records ==
    [vb : VBids, key : Keys, value : Vals, rowId : RowIds]
       \cup {[vb |-> 0, key |-> "", value |-> NoValue, rowId |-> -1]}

\* LoadStorageKVPairCallback::callback(GetValue &val), with val.getValue() = i,
\* shouldBeResident() = retain, and memory for the first add (hasSpace) and for
\* the one after the purge (again).  Of warmup, purges, purged and adds count
\* the calls of purge, the values it has ejected and the calls of ht.add, and rv
\* is what the last ht.add has returned
LoadStorageKVPairCallback(i, retain, hasSpace, again) ==
    /\ warmup.warmedUp < MaxRecords
    /\ IF i.value = NoValue
       THEN /\ warmup' = [warmup EXCEPT !.warmedUp = @ + 1, !.rv = "none"]
            /\ UNCHANGED <<vbstate, ht, towrite, accepted, casCounter>>
       ELSE LET first == htAddStored(Store, i, retain, hasSpace)
                purges == first.rv = "ADD_NOMEM" /\ ~warmup.hasPurged
                second == IF purges THEN htAddStored(purge(Store), i, retain, again)
                          ELSE first
                succeeded == second.rv # "ADD_NOMEM"
                ejects == IF succeeded /\ ~retain THEN 1 ELSE 0
                purged == IF purges
                          THEN Cardinality({e \in VBids \X Keys :
                                  purge(Store).ht[e[1]][e[2]] # ht[e[1]][e[2]]})
                          ELSE 0
            IN  /\ Stores(second.S)
                /\ warmup' = [warmup EXCEPT
                      !.hasPurged = @ \/ purges,
                      !.warmOOM = @ + (IF second.rv = "ADD_NOMEM" THEN 1 ELSE 0),
                      !.warmDups = @ + (IF second.rv = "ADD_EXISTS" THEN 1 ELSE 0),
                      !.numNonResident = @ + purged + ejects,
                      !.warmedUp = @ + 1,
                      !.purges = @ + (IF purges THEN 1 ELSE 0),
                      !.purged = @ + purged,
                      !.adds = @ + (IF purges THEN 2 ELSE 1),
                      !.rv = second.rv]
                /\ vbstate' = IF vbstate[i.vb] = "none"
                              THEN [vbstate EXCEPT ![i.vb] = "pending"]
                              ELSE vbstate
    /\ UNCHANGED <<now, pendingOps, writing, rejectQueue, fl, rows, bgTasks, notifyTasks,
                   notified, pendingDeletion, stats, disp, test, lk, VBPersist>>

\* EventuallyPersistentStore::EventuallyPersistentStore, with startVb0 = true
Init ==
    /\ now = 0
    /\ vbstate = [vb \in VBids |-> IF vb = 0 THEN "active" ELSE "none"]
    /\ pendingOps = [vb \in VBids |-> <<>>]
    /\ ht = [vb \in VBids |-> EmptyTable]
    /\ casCounter = 0
    /\ towrite = <<>>
    /\ writing = <<>>
    /\ rejectQueue = <<>>
    /\ fl = FlusherAt("running", 0)
    /\ rows = [i \in RowIds |-> NoRow]
    /\ bgTasks = {}
    /\ notifyTasks = [vb \in VBids |-> 0]
    /\ notified = {}
    /\ pendingDeletion = {}
    /\ accepted = [vb \in VBids |-> [k \in Keys |-> NoValue]]
    /\ stats = [min_data_age |-> minDataAge, queue_age_cap |-> queueAgeCap]
    /\ warmup = [hasPurged |-> FALSE, warmOOM |-> 0, warmDups |-> 0, numNonResident |-> 0,
                 warmedUp |-> 0, purges |-> 0, purged |-> 0, adds |-> 0, rv |-> "none"]
    /\ disp = NewDispatcher
    /\ test = [pc |-> "start", n |-> 0, callbacks |-> 0, invoked |-> [id \in TaskIds |-> 0]]
    /\ lk = [t \in Threads |-> Idle]
    /\ deleting = [vb \in VBids |-> 0]
    /\ delTasks = [vb \in VBids |-> 0]
    /\ setTasks = <<>>
    /\ vbDisk = [vb \in VBids |-> "none"]

Items == [vb : VBids, key : Keys, value : Vals, exptime : ExpTimes, cas : 0..MaxCas]

VBStates == {"active", "replica", "pending", "dead"}

\* Operations of the clients on the keys K of the partitions V, with force
\* drawn from F and honorStates from H.
ClientOp(V, K, F, H) ==
    \/ \E item \in Items, force \in F, hasSpace \in BOOLEAN :
          item.vb \in V /\ item.key \in K /\ set(item, "K", force, hasSpace)
    \/ \E item \in Items, hasSpace \in BOOLEAN :
          item.vb \in V /\ item.key \in K /\ add(item, "K", hasSpace)
    \/ \E k \in K, vb \in V, queueBG \in BOOLEAN, honorStates \in H :
          get(k, vb, "K", queueBG, honorStates)
    \/ \E k \in K, vb \in V, timeout \in LockTimeouts :
          getLocked(k, vb, ep_current_time, timeout)
    \/ \E k \in K, vb \in V : evictKey(k, vb)
    \/ \E k \in K, vb \in V : del(k, vb, "K")

FlusherStep ==
    \/ beginFlush
    \/ flushSomeBegin
    \/ flushOne
    \/ \E ok \in BOOLEAN : flushSet(ok, TRUE)
    \/ \E ok \in BOOLEAN : flushDel(ok)
    \/ flushSomeEnd
    \/ \E ok \in BOOLEAN : flushSomeCommit(ok)
    \/ completeFlush

BgFetchStep == \E t \in bgTasks : completeBGFetch(t)

NotifyStep == \E vb \in VBids : fireAllOps(vb)

Lifecycle(V) == \E vb \in V, to \in VBStates : setVBucketState(vb, to)

\* The store with its flusher and background fetcher: one key of the active partition 0.
Next == ClientOp({0}, {"a"}, {FALSE}, {TRUE}) \/ FlusherStep \/ BgFetchStep \/ Tick

Spec == Init /\ [][Next]_vars

\* The dispatcher runs the flusher and the background fetches again and again, and
\* the backing store succeeds again and again.
Fairness ==
    /\ WF_vars(beginFlush)
    /\ WF_vars(flushSomeBegin)
    /\ SF_vars(flushOne)
    /\ SF_vars(flushSet(TRUE, TRUE))
    /\ SF_vars(flushDel(TRUE))
    /\ WF_vars(flushSomeEnd)
    /\ SF_vars(flushSomeCommit(TRUE))
    /\ WF_vars(completeFlush)
    /\ SF_vars(BgFetchStep)

FairSpec == Init /\ [][Next]_vars /\ Fairness

\* The flusher with a backing store whose calls all succeed.
FlusherStepOk ==
    \/ beginFlush
    \/ flushSomeBegin
    \/ flushOne
    \/ flushSet(TRUE, TRUE)
    \/ flushDel(TRUE)
    \/ flushSomeEnd
    \/ flushSomeCommit(TRUE)
    \/ completeFlush

\* The store with reset, over a backing store that never fails, while no entry expires.
NextOk == ClientOp({0}, {"a"}, {FALSE}, {TRUE}) \/ reset \/ FlusherStepOk \/ BgFetchStep

SpecOk == Init /\ [][NextOk]_vars

\* Partition 1, absent at the start, through its life cycle, with the clients
\* that call it in every state and the non-I/O dispatcher; the flusher is idle.
NextVB ==
    \/ ClientOp({1}, {"a"}, BOOLEAN, BOOLEAN)
    \/ Lifecycle({1})
    \/ NotifyStep
    \/ completeSetVBState(TRUE)

SpecVB == Init /\ [][NextVB]_vars

\* The non-I/O dispatcher runs the tasks scheduled on it.
FairSpecVB == Init /\ [][NextVB]_vars /\ WF_vars(NotifyStep)

\* Both partitions, partition 1 through its life cycle, with reset and a flusher
\* over a backing store that never fails.
NextReset ==
    \/ \E item \in Items :
          item.key = "a" /\ item.value = "x" /\ item.exptime = 0 /\ item.cas = 0
             /\ set(item, "K", FALSE, TRUE)
    \/ \E vb \in VBids : del("a", vb, "K")
    \/ Lifecycle({1})
    \/ NotifyStep
    \/ reset
    \/ FlusherStepOk

SpecReset == Init /\ [][NextReset]_vars

\* Partition 1 created, killed, deleted and created again, with a client that sets
\* one key of it and a flusher over a backing store whose set and del never fail.
NextDel ==
    \/ \E item \in Items :
          item.vb = 1 /\ item.key = "a" /\ item.value = "x" /\ item.exptime = 0 /\ item.cas = 0
             /\ set(item, "K", FALSE, TRUE)
    \/ del("a", 1, "K")
    \/ \E to \in {"active", "dead"} : setVBucketState(1, to)
    \/ NotifyStep
    \/ deleteVBucket(1)
    \/ deleteVBucket_removeBucket(1)
    \/ \E ok \in BOOLEAN : completeVBucketDeletion(1, ok)
    \/ completeSetVBState(TRUE)
    \/ FlusherStepOk

SpecDel == Init /\ [][NextDel]_vars

\* The clock of the runs in which values age in the queue.
MaxAge == 3

TickAge ==
    /\ now < MaxAge
    /\ now' = now + 1
    /\ UNCHANGED <<vbstate, pendingOps, ht, casCounter, towrite, writing, rejectQueue, fl, rows,
                   bgTasks, notifyTasks, notified, pendingDeletion, accepted, stats, warmup, disp,
                   test, lk, VBPersist>>

\* One key of the active partition 0, set and deleted while the clock advances and
\* min_data_age and queue_age_cap are set, with a flusher over a backing store
\* that never fails.
NextAge ==
    \/ \E item \in Items :
          item.vb = 0 /\ item.key = "a" /\ item.value = "x" /\ item.exptime = 0 /\ item.cas = 0
             /\ set(item, "K", FALSE, TRUE)
    \/ del("a", 0, "K")
    \/ \E to \in {0, 2} : setMinDataAge(to)
    \/ \E to \in {1, queueAgeCap} : setQueueAgeCap(to)
    \/ FlusherStepOk
    \/ TickAge

SpecAge == Init /\ [][NextAge]_vars

\* main of src/t/dispatcher_test.cc
main ==
    \/ Dispatcher_start
    \/ Thing_start("t.start()", 0, "wait")
    \/ mainWait
    \/ Thing_start("t.start(3)", sleeptime3, "stop")
    \/ Dispatcher_stop
    \/ stopReturns

\* The test of the dispatcher, with a further client that schedules a task.
NextDisp ==
    \/ main
    \/ taskBegin \/ taskEnd \/ workerExit
    \/ \E again \in 0..MaxAgain, st \in {0, sleeptime3}, may \in BOOLEAN :
          otherSchedule(again, st, may)
    \/ clockTick

SpecDisp == Init /\ [][NextDisp]_vars

\* The dump of the backing store at start-up: every record goes to the callback.
NextWarm ==
    \E i \in Records, retain, hasSpace, again \in BOOLEAN :
       LoadStorageKVPairCallback(i, retain, hasSpace, again)

SpecWarm == Init /\ [][NextWarm]_vars

\* The worker thread and the main thread run.
FairSpecDisp ==
    /\ Init /\ [][NextDisp]_vars
    /\ WF_vars(taskBegin) /\ WF_vars(taskEnd) /\ WF_vars(workerExit) /\ WF_vars(main)

\* Partition 1 created, its states set and persisted, over a backing store that
\* fails now and then.
NextPersist ==
    \/ \E to \in VBStates : setVBucketState(1, to)
    \/ NotifyStep
    \/ \E ok \in BOOLEAN : completeSetVBState(ok)

\* The SetVBStateCallback tasks there can be.
SetVBStateCallbacks == [vbid : {1}, key : VBStates, retry : BOOLEAN]

\* The dispatchers run their tasks, and no task fails for ever: the failures of
\* the backing store are transient.
FairSpecPersist ==
    /\ Init /\ [][NextPersist]_vars
    /\ WF_vars(NotifyStep)
    /\ \A t \in SetVBStateCallbacks :
          SF_vars(setTasks # <<>> /\ Head(setTasks) = t /\ completeSetVBState(TRUE))

\* The threads of the store on their code paths, in every interleaving.
NextLock ==
    \E t \in Threads :
       enter(t) \/ LockHolder_lock(t) \/ LockHolder_unlock(t) \/ underlying(t)

\* Every thread that can run does run again and again.
FairSpecLock ==
    /\ Init /\ [][NextLock]_vars
    /\ \A t \in Threads :
          SF_vars(LockHolder_lock(t)) /\ WF_vars(LockHolder_unlock(t)) /\ WF_vars(underlying(t))

(***************************************************************************)
(* Claims.                                                                 *)
(***************************************************************************)
\* The value a get must return: the one of the last accepted set of k, with no
\* del and no expiry of k since, on an active partition.
Settled(vb, k) ==
    /\ vbstate[vb] = "active"
    /\ accepted[vb][k] \in Vals
    /\ ~isExpired(ht[vb][k], ep_real_time)

\* C1: after an accepted set(k,v), with no del and no expiry of k since, a get(k)
\* returns success with the value v and with the cas stored for k.  The reading
\* checked allows what get is specified to do besides: the cas returned is -1
\* while k is locked by getLocked, and the get returns WouldBlock while the value
\* is ejected and not yet fetched back.
C1_GetAfterSet ==
    \A vb \in VBids, k \in Keys, queueBG \in BOOLEAN :
        Settled(vb, k) =>
            LET r == getCall(k, vb, queueBG, TRUE)
                v == ht[vb][k]
            IN  /\ v.present /\ ~isDeleted(v)
                /\ r.S = Store
                /\ IF isResident(v)
                   THEN /\ r.status = "SUCCESS"
                        /\ r.value = accepted[vb][k]
                        /\ r.cas = IF isLocked(v, ep_current_time) THEN -1 ELSE v.cas
                   ELSE r.status = "EWOULDBLOCK" /\ r.bg = queueBG

\* The flusher step that ends the flush of a del of key k of partition vb.
FlushesDel(vb, k) ==
    \/ fl.pc = "io" /\ fl.io = "del" /\ fl.qi.vb = vb /\ fl.qi.key = k /\ fl'.pc = "txn"
    \/ /\ fl.pc = "txn" /\ writing # <<>> /\ writing' = Tail(writing)
       /\ Head(writing).vb = vb /\ Head(writing).key = k

\* C2: after an accepted del(k) on an active partition, and before a later set or
\* add of k, every get(k) returns NotFound whatever the flusher is doing, the
\* entry is a tombstone with no value while it is in the hash table, and only the
\* flush of the deletion takes it out of the hash table.
C2_GetAfterDel ==
    /\ [](\A vb \in VBids, k \in Keys, queueBG \in BOOLEAN :
            vbstate[vb] = "active" /\ accepted[vb][k] = Deleted =>
               /\ getCall(k, vb, queueBG, TRUE).status = "KEY_ENOENT"
               /\ getCall(k, vb, queueBG, TRUE).S = Store
               /\ ht[vb][k].present => isDeleted(ht[vb][k]) /\ ~isResident(ht[vb][k]))
    /\ [][\A vb \in VBids, k \in Keys :
            /\ accepted[vb][k] = Deleted /\ accepted'[vb][k] = Deleted
            /\ ht[vb][k].present /\ ~ht'[vb][k].present
            => FlushesDel(vb, k)]_vars

\* A del was accepted, its flush failed, and the tombstone waits in the reject queue.
C2_Witness ==
    \E vb \in VBids, k \in Keys :
        /\ vbstate[vb] = "active" /\ accepted[vb][k] = Deleted
        /\ ht[vb][k].present /\ ht[vb][k].rowId > 0
        /\ \E i \in 1..Len(rejectQueue) : rejectQueue[i].key = k /\ rejectQueue[i].op = "del"
        /\ getCall(k, vb, TRUE, TRUE).status = "KEY_ENOENT"

\* The store S has one entry more in towrite than the current state: op on key.
AppendsOne(S, key, vbid, op) ==
    /\ Len(S.towrite) = Len(towrite) + 1
    /\ SubSeq(S.towrite, 1, Len(towrite)) = towrite
    /\ S.towrite[Len(S.towrite)].key = key
    /\ S.towrite[Len(S.towrite)].vb = vbid
    /\ S.towrite[Len(S.towrite)].op = op

\* C3: a set or del whose hash table transition is WAS_CLEAN, and a set without
\* cas that inserts a new key, appends exactly one entry for its key to towrite
\* before it returns; a set or del whose transition is WAS_DIRTY leaves towrite
\* as it is.
C3_QueueOnClean ==
    /\ \A item \in Items, force \in BOOLEAN, hasSpace \in BOOLEAN :
          LET r == setCall(item, force, hasSpace)
          IN  /\ r.rv = "WAS_CLEAN" \/ (r.rv = "NOT_FOUND" /\ item.cas = 0) =>
                    AppendsOne(r.S, item.key, item.vb, "set")
              /\ r.rv = "WAS_DIRTY" => r.S.towrite = towrite
    /\ \A k \in Keys, vb \in VBids :
          LET r == delCall(k, vb)
          IN  /\ r.rv = "WAS_CLEAN" => AppendsOne(r.S, k, vb, "del")
              /\ r.rv = "WAS_DIRTY" => r.S.towrite = towrite

\* A clean, persisted value that a set or a del can make dirty, and a dirty value
\* in the queue that a further set finds dirty.
C3_Witness ==
    /\ casCounter < MaxCas
    /\ \E vb \in VBids, k \in Keys :
          /\ ht[vb][k].present /\ isClean(ht[vb][k]) /\ ht[vb][k].rowId > 0
          /\ delCall(k, vb).rv = "WAS_CLEAN"
          /\ \E item \in Items : item.key = k /\ setCall(item, FALSE, TRUE).rv = "WAS_CLEAN"

\* C4: with the flusher scheduled fairly and a backing store that succeeds again
\* and again, no value stays dirty forever.
C4_AsStated ==
    \A vb \in VBids, k \in Keys :
        (ht[vb][k].present /\ isDirty(ht[vb][k]))
            ~> (~ht[vb][k].present \/ isClean(ht[vb][k]))

\* The flusher has drained the dirty queue and has no item in flight.
Drained == towrite = <<>> /\ writing = <<>> /\ rejectQueue = <<>> /\ fl.pc # "io"

\* C5: when the flusher has drained the dirty queue and every call of the backing
\* store has succeeded, every entry that is no tombstone has a rowId > 0 naming a
\* row that holds its key and value, and the backing store has no other row.
C5_RowsMatch ==
    Drained =>
        /\ \A vb \in VBids, k \in Keys :
              LET v == ht[vb][k]
              IN  v.present /\ ~isDeleted(v) =>
                     /\ v.rowId \in RowIds
                     /\ rows[v.rowId].present
                     /\ rows[v.rowId].vb = vb /\ rows[v.rowId].key = k
                     /\ isResident(v) => rows[v.rowId].value = v.value
        /\ \A i \in RowIds :
              rows[i].present =>
                 \E vb \in VBids, k \in Keys :
                    ht[vb][k].present /\ ~isDeleted(ht[vb][k]) /\ ht[vb][k].rowId = i

\* What a call that returns NotMyPartition must leave as it was: a call changes
\* the hash table and the dirty queue through r.S, and the pending cookies
\* through r.park.
Untouched(r) == r.S = Store /\ ~r.park /\ ~r.bg

\* The result of each of the five operations refused for the state of its partition.
Refused(r) == r.status = "NOT_MY_VBUCKET" /\ Untouched(r)

Parked(r) == r.status = "EWOULDBLOCK" /\ r.park /\ r.S = Store /\ ~r.bg

\* The result of an operation that the state of its partition lets through.
Proceeds(r) == ~r.park /\ r.status # "NOT_MY_VBUCKET"

\* C7: a get, a set without force, an add or a del on a pending partition parks
\* the cookie, returns WouldBlock and leaves the hash table and the dirty queue
\* as they were; once setVBucketState has moved the partition out of pending, the
\* non-I/O dispatcher eventually notifies every parked cookie (unless the
\* partition is made pending again first), cookies leave the list only by being
\* notified, and on the active partition the operations proceed.
C7_PendingParks ==
    /\ [](\A item \in Items, k \in Keys, hasSpace \in BOOLEAN, queueBG \in BOOLEAN :
            /\ vbstate[item.vb] = "pending" =>
                  /\ Parked(getCall(k, item.vb, queueBG, TRUE))
                  /\ Parked(setCall(item, FALSE, hasSpace))
                  /\ Parked(addCall(item, hasSpace))
                  /\ Parked(delCall(k, item.vb))
            /\ vbstate[item.vb] = "active" =>
                  /\ Proceeds(getCall(k, item.vb, queueBG, TRUE))
                  /\ Proceeds(setCall(item, FALSE, hasSpace))
                  /\ Proceeds(addCall(item, hasSpace))
                  /\ Proceeds(delCall(k, item.vb)))
    /\ [][\A vb \in VBids :
            pendingOps'[vb] # pendingOps[vb] /\ Len(pendingOps'[vb]) <= Len(pendingOps[vb]) =>
               /\ pendingOps'[vb] = <<>>
               /\ vbstate[vb] # "pending"
               /\ \A i \in 1..Len(pendingOps[vb]) :
                     [cookie |-> pendingOps[vb][i],
                      status |-> IF vbstate[vb] = "active"
                                 THEN "SUCCESS" ELSE "NOT_MY_VBUCKET"] \in notified']_vars
    /\ \A vb \in VBids :
          (pendingOps[vb] # <<>> /\ vbstate[vb] # "pending")
             ~> (pendingOps[vb] = <<>> \/ vbstate[vb] = "pending")

\* A cookie is parked on a partition that has just become active, and its
\* notification is scheduled.
C7_Witness ==
    \E vb \in VBids :
        /\ pendingOps[vb] # <<>>
        /\ vbstate[vb] = "active"
        /\ notifyTasks[vb] > 0
        /\ notified = {}

\* C8: on an active partition with memory for the value, a set that carries
\* cas # 0 succeeds exactly when the key has an entry whose cas is that cas; on
\* an entry with another cas it returns Exists, on a key with no entry NotFound,
\* and in both cases the stored value, its cas, its dirty flag and the dirty
\* queue stay as they were.
C8_CasSet ==
    \A item \in Items, force \in BOOLEAN :
        vbstate[item.vb] = "active" /\ item.cas # 0 =>
            LET r == setCall(item, force, TRUE)
                v == ht[item.vb][item.key]
            IN  /\ r.status = "SUCCESS" <=> v.present /\ v.cas = item.cas
                /\ v.present /\ v.cas # item.cas =>
                      r.status = "KEY_EEXISTS" /\ r.S = Store
                /\ ~v.present => r.status = "KEY_ENOENT" /\ r.S = Store
                /\ r.status = "SUCCESS" =>
                      /\ r.S.ht[item.vb][item.key].value = item.value
                      /\ r.S.ht[item.vb][item.key].cas = casCounter + 1
                      /\ isDirty(r.S.ht[item.vb][item.key])

\* A clean, persisted value whose cas one set matches and another set misses.
C8_Witness ==
    /\ casCounter < MaxCas
    /\ \E item \in Items, other \in Items :
          LET v == ht[item.vb][item.key]
          IN  /\ vbstate[item.vb] = "active"
              /\ v.present /\ ~isDeleted(v) /\ isClean(v) /\ v.rowId > 0
              /\ item.cas = v.cas /\ item.cas # 0
              /\ other.vb = item.vb /\ other.key = item.key
              /\ other.cas # 0 /\ other.cas # v.cas
              /\ setCall(item, FALSE, TRUE).status = "SUCCESS"
              /\ setCall(other, FALSE, TRUE).status = "KEY_EEXISTS"

\* The key k of partition vb is inside the window of a getLocked.
InWindow(vb, k) ==
    /\ vbstate[vb] = "active"
    /\ ht[vb][k].present /\ ~isDeleted(ht[vb][k])
    /\ isLocked(ht[vb][k], ep_current_time)

\* C9: from a getLocked on k at time t with timeout T that returns the item
\* until t + T, every other getLocked on k gets the empty result and changes
\* neither the lock nor the cas, every get returns cas -1 (WouldBlock while the
\* value is ejected), and a set that does not carry the cas of the lock holder
\* returns Exists; k leaves the window before t + T only by a set that carries
\* that cas; from t + T on the item is unlocked: get returns the stored cas and
\* getLocked acquires it.
C9_LockWindow ==
    /\ [](\A vb \in VBids, k \in Keys :
            LET v == ht[vb][k]
            IN  /\ InWindow(vb, k) =>
                      /\ \A timeout \in LockTimeouts :
                            LET gl == getLockedCall(k, vb, ep_current_time, timeout)
                            IN  gl.status = "KEY_ENOENT" /\ ~gl.ret /\ gl.S = Store
                      /\ \A queueBG \in BOOLEAN :
                            LET g == getCall(k, vb, queueBG, TRUE)
                            IN  IF isResident(v)
                                THEN g.status = "SUCCESS" /\ g.cas = -1
                                ELSE g.status = "EWOULDBLOCK"
                      /\ \A item \in Items, hasSpace \in BOOLEAN :
                            item.vb = vb /\ item.key = k /\ item.cas # v.cas =>
                               LET st == setCall(item, FALSE, hasSpace)
                               IN  st.status \in {"KEY_EEXISTS", "ENOMEM"} /\ st.S = Store
                /\ vbstate[vb] = "active" /\ v.present /\ ~isDeleted(v)
                      /\ v.lockedUntil # 0 /\ ep_current_time >= v.lockedUntil
                      /\ ~isExpired(v, ep_real_time) =>
                      /\ isResident(v) => getCall(k, vb, TRUE, TRUE).cas = v.cas
                      /\ \A timeout \in LockTimeouts :
                            getLockedCall(k, vb, ep_current_time, timeout).status = "SUCCESS")
    /\ [][\A vb \in VBids, k \in Keys :
            InWindow(vb, k) /\ ep_current_time' < ht[vb][k].lockedUntil =>
               \/ /\ ht'[vb][k].present /\ ~isDeleted(ht'[vb][k])
                  /\ ht'[vb][k].lockedUntil = ht[vb][k].lockedUntil
                  /\ ht'[vb][k].cas = ht[vb][k].cas
               \/ /\ ht'[vb][k].present /\ ~isDeleted(ht'[vb][k])
                  /\ ht'[vb][k].lockedUntil = 0
                  /\ \E item \in Items :
                        /\ item.vb = vb /\ item.key = k /\ item.cas = ht[vb][k].cas
                        /\ ht' = setCall(item, FALSE, TRUE).S.ht]_vars

\* The result r of an operation that found key k of partition vb expired.
Expires(r, vb, k) ==
    LET v == ht[vb][k]
    IN  /\ r.status = "KEY_ENOENT"
        /\ r.S.ht = [ht EXCEPT ![vb][k] = svDel(v, ep_current_time)]
        /\ isDeleted(r.S.ht[vb][k]) /\ ~isResident(r.S.ht[vb][k])
        /\ r.S.towrite = IF isClean(v)
                         THEN Append(towrite, QueuedItem(k, vb, "del", ep_current_time))
                         ELSE towrite

\* C10: a lookup through fetchValidValue (by get, getLocked or evictKey) of an
\* entry that is no tombstone, with exptime # 0 and the time at or past exptime,
\* soft-deletes the entry and returns NotFound, resident or not; it appends one
\* del entry to the dirty queue exactly when the entry was clean; and a lookup
\* of a tombstone changes nothing.
C10_Expiry ==
    \A vb \in VBids, k \in Keys, queueBG \in BOOLEAN, honorStates \in BOOLEAN,
       timeout \in LockTimeouts :
        LET v == ht[vb][k]
        IN  vbstate[vb] = "active" /\ v.present =>
               /\ ~isDeleted(v) /\ v.exptime # 0 /\ ep_real_time >= v.exptime =>
                     /\ Expires(getCall(k, vb, queueBG, honorStates), vb, k)
                     /\ Expires(getLockedCall(k, vb, ep_current_time, timeout), vb, k)
                     /\ Expires(evictKeyCall(k, vb), vb, k)
                     /\ ~fetchValidValue(Store, vb, k, TRUE).v.present
               /\ isDeleted(v) =>
                     /\ fetchValidValue(Store, vb, k, TRUE) = [S |-> Store, v |-> v]
                     /\ fetchValidValue(Store, vb, k, FALSE) = [S |-> Store, v |-> NoEntry]
                     /\ getCall(k, vb, queueBG, honorStates).S = Store
                     /\ getCall(k, vb, queueBG, honorStates).status = "KEY_ENOENT"

\* A persisted, clean value, ejected from memory, whose exptime has passed.
C10_Witness ==
    \E vb \in VBids, k \in Keys :
        LET v == ht[vb][k]
        IN  /\ vbstate[vb] = "active"
            /\ v.present /\ ~isDeleted(v) /\ v.exptime # 0 /\ ep_real_time >= v.exptime
            /\ isClean(v) /\ v.rowId > 0 /\ ~isResident(v)
            /\ Len(getCall(k, vb, TRUE, TRUE).S.towrite) = Len(towrite) + 1

\* What add does on an active partition, but for the status it returns for a
\* key that exists.
AddOutcome(item, existsStatus) ==
    LET r == addCall(item, TRUE)
        v == ht[item.vb][item.key]
        w == r.S.ht[item.vb][item.key]
    IN  /\ item.cas # 0 => r.status = "NOT_STORED" /\ r.S = Store
        /\ item.cas = 0 /\ v.present /\ ~isDeleted(v) =>
               r.rv = "ADD_EXISTS" /\ r.status = existsStatus /\ r.S = Store
        /\ item.cas = 0 /\ ~(v.present /\ ~isDeleted(v)) =>
               /\ r.status = "SUCCESS"
               /\ r.rv = IF v.present THEN "ADD_UNDEL" ELSE "ADD_SUCCESS"
               /\ AppendsOne(r.S, item.key, item.vb, "set")
               /\ w.present /\ ~isDeleted(w) /\ isDirty(w) /\ w.value = item.value

\* C11 as stated: on an active partition an add with cas # 0 returns NotStored
\* and changes nothing, an add of a key that exists and is no tombstone returns
\* Exists and changes nothing, and an add that inserts a key or revives a
\* tombstone returns success and appends exactly one set entry to towrite.
C11_AsStated ==
    \A item \in Items : vbstate[item.vb] = "active" => AddOutcome(item, "KEY_EEXISTS")

\* C11 as amended: as stated, but the add of a key that exists returns NotStored;
\* Exists is the result of the hash table only.
C11_Add ==
    \A item \in Items : vbstate[item.vb] = "active" => AddOutcome(item, "NOT_STORED")

\* A persisted key that an add finds, and a tombstone in the queue that an add revives.
C11_Witness ==
    /\ casCounter < MaxCas
    /\ \E item \in Items :
          LET v == ht[item.vb][item.key]
          IN  /\ vbstate[item.vb] = "active" /\ item.cas = 0
              /\ v.present /\ isDeleted(v) /\ v.rowId > 0
              /\ addCall(item, TRUE).rv = "ADD_UNDEL"
              /\ Len(addCall(item, TRUE).S.towrite) = Len(towrite) + 1

\* The rows the backing store holds for key k of partition vb.
RowsOf(vb, k) == {i \in RowIds : rows[i].present /\ rows[i].vb = vb /\ rows[i].key = k}

\* The backing store holds what the last accepted mutation of k made of it: one
\* row with the value of the last set or add, no row after a del or an expiry.
PersistedLast(vb, k) ==
    IF accepted[vb][k] \in Vals
    THEN /\ RowsOf(vb, k) # {}
         /\ \A i \in RowsOf(vb, k) : rows[i].value = accepted[vb][k]
    ELSE RowsOf(vb, k) = {}

\* C12: the entries of the dirty queue keep their order from towrite through
\* writing to the flush (towrite is moved behind writing as a whole, the flusher
\* takes the head of writing, rejected entries are appended in the order of their
\* rejection), and once the queue is drained the backing store holds, for every
\* key, the state its last accepted mutation produced.
C12_OrderKept ==
    /\ [][/\ writing' # writing =>
              \/ writing # <<>> /\ writing' = Tail(writing)
              \/ writing' = writing \o towrite /\ towrite' = <<>>
              \/ writing' = writing \o rejectQueue /\ rejectQueue' = <<>>
          /\ towrite' # towrite /\ towrite' # <<>> =>
              Len(towrite') = Len(towrite) + 1 /\ SubSeq(towrite', 1, Len(towrite)) = towrite
          /\ rejectQueue' # rejectQueue /\ rejectQueue' # <<>> =>
              rejectQueue' = Append(rejectQueue, fl.qi) \/
              (writing # <<>> /\ rejectQueue' = Append(rejectQueue, Head(writing)))]_vars
    /\ [](Drained /\ vbstate[0] = "active" => \A k \in Keys : PersistedLast(0, k))

\* C14: on a running dispatcher a task scheduled with delay 0 is eventually
\* invoked; a task is invoked again only if its callback returned true and it was
\* scheduled with mayReschedule = true; a task whose callback returns false, or
\* that was scheduled with mayReschedule = false, is invoked at most once; and the
\* three tasks of the first t.start() of main produce exactly three callbacks.
C14_InvokedOnce ==
    /\ \A id \in TaskIds :
          (disp.tasks[id].scheduled /\ disp.tasks[id].snooze = 0 /\ test.invoked[id] = 0)
             ~> (test.invoked[id] > 0 \/ disp.state # "running")
    /\ [][\A id \in TaskIds :
            test'.invoked[id] # test.invoked[id] /\ test.invoked[id] > 0 =>
               /\ disp.tasks[id].may
               /\ test.invoked[id] - 1 < disp.tasks[id].again]_vars
    /\ [](\A id \in TaskIds :
            disp.tasks[id].scheduled /\ (~disp.tasks[id].may \/ disp.tasks[id].again = 0) =>
               test.invoked[id] <= 1)
    /\ [](test.pc # "return 1")
    /\ [](test.pc \in {"t.start()", "wait"} => test.callbacks <= expected_num_callbacks)
    /\ (test.pc = "wait") ~> (test.pc = "t.start(3)")

\* main has counted its three callbacks, and a task of another client, whose
\* callback returned true once, has been invoked a second time.
C14_Witness ==
    /\ test.pc = "t.start(3)"
    /\ disp.state = "running"
    /\ \E id \in TaskIds :
          /\ disp.tasks[id].scheduled /\ disp.tasks[id].may /\ disp.tasks[id].again = 1
          /\ test.invoked[id] = 2
    /\ \A id \in 1..3 : test.invoked[id] = 1

\* The number of rows of the backing store.
NumRows(R) == Cardinality({i \in RowIds : R[i].present})

\* The step is a call of reset: nothing else queues a flush entry.
IsReset == towrite' # towrite /\ towrite' # <<>> /\ towrite'[Len(towrite')].op = "flush"

\* C15: reset empties the hash table of every active partition, so that a get that
\* follows finds nothing, leaves the table of a replica, pending or dead partition
\* as it was, and appends exactly one flush entry to the dirty queue, whatever the
\* number of partitions; when the flusher dequeues that entry it resets the backing
\* store once, and the backing store is reset in no other step.
C15_Reset ==
    /\ [][IsReset =>
            /\ \A vb \in VBids :
                  ht'[vb] = IF vbstate[vb] = "active" THEN EmptyTable ELSE ht[vb]
            /\ towrite' = Append(towrite, QueuedItem("", 0, "flush", ep_current_time))]_vars
    /\ [](\A vb \in VBids, k \in Keys :
            vbstate[vb] = "active" /\ ~ht[vb][k].present =>
               getCall(k, vb, TRUE, TRUE).status = "KEY_ENOENT")
    /\ [][writing # <<>> /\ writing' = Tail(writing) /\ Head(writing).op = "flush" =>
            /\ rows' = kvReset(rows)
            /\ fl.n' = fl.n + 1
            /\ UNCHANGED <<ht, towrite, rejectQueue>>]_vars
    /\ [][NumRows(rows) >= NumRows(rows') + 2 =>
            writing # <<>> /\ writing' = Tail(writing) /\ Head(writing).op = "flush"]_vars

\* reset has emptied the active partition 0 and left the entry of the replica
\* partition 1, and the flusher is about to dequeue the flush entry while the
\* backing store holds two rows.
C15_Witness ==
    /\ vbstate[0] = "active" /\ vbstate[1] = "replica"
    /\ ht[0] = EmptyTable /\ ht[1]["a"].present
    /\ NumRows(rows) = 2
    /\ fl.pc = "txn" /\ writing # <<>> /\ Head(writing).op = "flush"

\* The step is the deletion callback, run for the delete the flusher has issued.
IsDelCallback == fl.pc = "io" /\ fl.io = "del" /\ fl'.pc # "io"

\* C16: the deletion callback never removes from the hash table a stored value
\* whose cas differs from the cas the value had when the flusher released the lock
\* and issued the delete: an entry revived and changed in between is left alone.
C16_CasGuard ==
    [][IsDelCallback =>
         LET v == ht[fl.qi.vb][fl.qi.key]
         IN  v.present /\ ~ht'[fl.qi.vb][fl.qi.key].present => v.cas = fl.cas]_vars

\* The step removes the entry of key k from the hash table of partition vb.
Removes(vb, k) == ht[vb][k].present /\ ~ht'[vb][k].present

\* The step is the deletion callback for key k of partition vb, called with the
\* answer of the backing store to a delete of the row of that key, which is not -1.
AcknowledgedDel(vb, k) ==
    /\ IsDelCallback
    /\ fl.qi.vb = vb /\ fl.qi.key = k
    /\ fl.rowid \in RowIds
    /\ rows[fl.rowid].present => rows[fl.rowid].vb = vb /\ rows[fl.rowid].key = k
    /\ rows' = kvDel(rows, fl.rowid, TRUE).rows
    /\ rejectQueue' = rejectQueue

\* The step is the flusher dequeuing an entry of a tombstone that has no row: it
\* calls the deletion callback itself, with 0, and no backing store.
BypassedDel(vb, k) ==
    /\ fl.pc = "txn" /\ writing # <<>> /\ writing' = Tail(writing)
    /\ Head(writing).vb = vb /\ Head(writing).key = k
    /\ isDeleted(ht[vb][k]) /\ ht[vb][k].rowId <= 0
    /\ rows' = rows

\* C17 as stated: an entry leaves the hash table only in a deletion callback that
\* was called with the answer, not -1, of the backing store to a delete of its row.
C17_AsStated ==
    [][\A vb \in VBids, k \in Keys : Removes(vb, k) => AcknowledgedDel(vb, k)]_vars

\* C17: with neither reset nor partition deletion, an entry leaves the hash table
\* only in a deletion callback for its key that was called either with the answer,
\* not -1, of the backing store to a delete of its row, or, for a tombstone that has
\* no row, by the flusher itself with 0; a callback called with -1 removes nothing.
C17_Removal ==
    /\ [][\A vb \in VBids, k \in Keys :
            Removes(vb, k) => AcknowledgedDel(vb, k) \/ BypassedDel(vb, k)]_vars
    /\ [](fl.pc = "io" /\ fl.io = "del" =>
            \A vb \in VBids, k \in Keys :
               ht[vb][k].present =>
                  delCallback(Store, fl.qi, fl.dirtied, -1).S.ht[vb][k].present)

\* The backing store is about to answer the delete of the row of a tombstone.
C17_Witness ==
    /\ fl.pc = "io" /\ fl.io = "del"
    /\ ht[fl.qi.vb][fl.qi.key].present /\ isDeleted(ht[fl.qi.vb][fl.qi.key])
    /\ fl.rowid \in RowIds /\ rows[fl.rowid].present

\* An entry for key k of partition vb is in one of the queues of the flusher.
InQueues(vb, k) ==
    \E q \in {towrite, writing, rejectQueue} :
       \E i \in 1..Len(q) : q[i].op # "flush" /\ q[i].vb = vb /\ q[i].key = k

\* The flusher has dequeued an entry for key k of partition vb and is persisting it.
Flushing(vb, k) == fl.pc = "io" /\ fl.qi.vb = vb /\ fl.qi.key = k

\* C18: with persistence enabled, a stored value that is dirty has an entry for its
\* key in the towrite, writing or reject queue, or the flusher is persisting it, an
\* entry that expires while the flusher looks it up included; and a stored value
\* for whose key a queue holds an entry is dirty: none is kept for a clean value.
C18_DirtyIffQueued ==
    \A vb \in VBids, k \in Keys :
        LET v == ht[vb][k]
        IN  /\ v.present /\ isDirty(v) => InQueues(vb, k) \/ Flushing(vb, k)
            /\ v.present /\ InQueues(vb, k) => isDirty(v)

\* The flusher has accepted the value of key k of partition vb, which has no row
\* yet, and the persist it has issued has not ended.
InsertInFlight(vb, k) ==
    fl.pc = "io" /\ fl.io = "set" /\ fl.rowid = -1 /\ fl.qi.vb = vb /\ fl.qi.key = k

\* C19: a stored value has pendingId only while a persist of it with rowId = -1 is
\* outstanding: however the persist ends, the value has a rowId > 0 or is dirty
\* again, and pendingId is cleared; no value keeps pendingId with no persist in flight.
C19_PendingId ==
    \A vb \in VBids, k \in Keys :
        LET v == ht[vb][k]
        IN  v.present /\ isPendingId(v) => v.rowId = -1 /\ InsertInFlight(vb, k)

\* The flusher is about to dequeue the entry of a live value that is dirty and
\* not mid-persist.
DequeuesDirty ==
    /\ fl.pc = "txn" /\ fl.n < txnSize /\ bgTasks = {}
    /\ writing # <<>> /\ Head(writing).op # "flush"
    /\ vbstate[Head(writing).vb] # "none"
    /\ LET v == ht[Head(writing).vb][Head(writing).key]
       IN  v.present /\ ~isDeleted(v) /\ isDirty(v) /\ ~isPendingId(v)
              /\ ~isExpired(v, ep_real_time)

\* The ages flushOneDelOrSet computes for the entry at the head of the writing queue.
HeadDataAge == ep_current_time - ht[Head(writing).vb][Head(writing).key].dirtied

HeadDirtyAge == ep_current_time - Head(writing).dirtied

Dequeues(qi) ==
    /\ fl.pc = "txn" /\ writing # <<>> /\ writing' = Tail(writing)
    /\ Head(writing) = qi /\ qi.op # "flush"

FailedPersist == fl.pc = "io" /\ fl'.pc # "io" /\ rejectQueue' # rejectQueue

\* The reject queue holds an entry for key k of partition vb.
Rejected(vb, k) ==
    \E i \in 1..Len(rejectQueue) : rejectQueue[i].vb = vb /\ rejectQueue[i].key = k

\* C22: when the backing store fails a set or a del, no client is notified and
\* no row changes; the stored value is dirty again with the dirtied stamp it had
\* when the flusher accepted it, and its queue item is pushed once on the reject
\* queue; completeFlush moves the reject queue to the end of the writing queue; and
\* the flusher later issues a persist for the key again, unless the value has
\* left the hash table or is clean by then.
C22_Redirty ==
    /\ [][FailedPersist =>
            LET qi == fl.qi
                v == ht'[qi.vb][qi.key]
            IN  /\ rejectQueue' = Append(rejectQueue, qi)
                /\ rows' = rows /\ notified' = notified /\ towrite' = towrite
                /\ ht[qi.vb][qi.key].present
                /\ v = reDirty(ht[qi.vb][qi.key], fl.dirtied)
                /\ isDirty(v) /\ v.dirtied = fl.dirtied]_vars
    /\ [][fl.pc = "complete" /\ fl'.pc # "complete" =>
            writing' = writing \o rejectQueue /\ rejectQueue' = <<>>]_vars
    /\ \A vb \in VBids, k \in Keys :
          Rejected(vb, k) ~>
             \/ Flushing(vb, k)
             \/ ~ht[vb][k].present
             \/ isClean(ht[vb][k])

\* The background fetches a get can schedule.
BgTasks == [key : Keys, vb : VBids, rowid : RowIds \cup {-1}, cookie : Cookies]

\* Key k of the active partition vb has a live value that is not resident.
NonResident(vb, k) ==
    LET v == ht[vb][k]
    IN  /\ vbstate[vb] = "active"
        /\ v.present /\ ~isDeleted(v) /\ ~isExpired(v, ep_real_time) /\ ~isResident(v)

IsBgFetch == bgTasks' # bgTasks /\ bgTasks' \subseteq bgTasks

\* C24: a background fetch that completes leaves a resident value as it is, leaves
\* an absent key absent and a tombstone a tombstone, changes nothing of a
\* partition that is not active and nothing of the backing store, and a get that
\* succeeds after it returns the value of the last accepted set.
C24_NoUndo ==
    [][IsBgFetch =>
        /\ UNCHANGED <<rows, vbstate, pendingDeletion>>
        /\ \A t \in bgTasks \ bgTasks' :
              vbstate[t.vb] # "active" => UNCHANGED <<ht, towrite, accepted>>
        /\ \A vb \in VBids, k \in Keys :
              LET v == ht[vb][k]
                  w == ht'[vb][k]
              IN  /\ vbstate[vb] # "active" => w = v
                  /\ ~v.present => ~w.present
                  /\ v.present /\ isDeleted(v) => w = v
                  /\ v.present /\ isResident(v) /\ ~isExpired(v, ep_real_time) => w = v
                  /\ (/\ Settled(vb, k)
                      /\ w.present /\ isResident(w) /\ ~isDeleted(w)
                      /\ isResident(v) => v.value = accepted[vb][k])
                     => w.value = accepted[vb][k]]_vars

\* Thread t waits for a mutex that is held.
Waits(t) == lk[t].pc > 0 /\ AtStep(t).a = "lock" /\ Owners(AtStep(t).m) # {}

\* The threads of W wait for mutexes that threads of W hold.
Deadlocked(W) == W # {} /\ \A t \in W : Waits(t) /\ Owners(AtStep(t).m) \subseteq W

\* C25: a thread that locks vbsetMutex holds no bucket mutex, and a thread that
\* locks a bucket mutex holds no other bucket mutex; no set of threads of the
\* client operations, the flusher, the background fetches and the partition
\* life cycle waits in a cycle, and every thread comes to the end of its code path.
C25_LockOrder ==
    /\ [](\A t \in Threads :
            lk[t].pc > 0 /\ AtStep(t).a = "lock" =>
               /\ AtStep(t).m = "vbsetMutex" => lk[t].held = <<>>
               /\ AtStep(t).m \in {getMutex(b) : b \in Buckets} =>
                     \A i \in 1..Len(lk[t].held) :
                        lk[t].held[i] \notin {getMutex(b) : b \in Buckets})
    /\ [](\A W \in SUBSET Threads : ~Deadlocked(W))
    /\ \A t \in Threads : lk[t].pc > 0 ~> lk[t].pc = 0

\* A background fetch holds vbsetMutex and a bucket mutex while one client waits
\* for that bucket mutex and the other for vbsetMutex.
C25_Witness ==
    /\ lk["dispatcher"].op = "completeBGFetch"
    /\ lk["dispatcher"].held = <<"vbsetMutex", getMutex(0)>>
    /\ Waits("client 1") /\ AtStep("client 1").m = getMutex(0)
    /\ Waits("client 2") /\ AtStep("client 2").m = "vbsetMutex"

\* C26: the dispatcher holds no bucket mutex while it calls the backing store:
\* flushOneDelOrSet has released the bucket mutex before backingStore.set and
\* backingStore.del, whose callback locks the bucket again, and completeBGFetch
\* reads the backing store before it locks anything.
C26_NoLockOverIO ==
    /\ \A t \in Threads :
          lk[t].pc > 0 /\ AtStep(t).a = "underlying" =>
             /\ \A i \in 1..Len(lk[t].held) : lk[t].held[i] \notin {getMutex(b) : b \in Buckets}
             /\ lk[t].op = "flushOneDelOrSet" =>
                   /\ lk[t].held = <<>>
                   /\ lk[t].path[lk[t].pc - 1].a = "unlock"
                   /\ lk[t].path[lk[t].pc + 1] = Acquire(lk[t].path[lk[t].pc - 1].m)
    /\ \A t \in Threads :
          lk[t].pc > 0 /\ lk[t].op = "completeBGFetch" =>
             /\ lk[t].path[1] = Underlying("get")
             /\ \A i \in 2..Len(lk[t].path) : lk[t].path[i].a # "underlying"

\* The flusher is in backingStore.set for a key while a client holds the mutex of
\* the bucket of that key.
C26_Witness ==
    /\ lk["dispatcher"].op = "flushOneDelOrSet"
    /\ AtStep("dispatcher") = Underlying("set")
    /\ lk["dispatcher"].path[1].m = getMutex(0)
    /\ lk["client 1"].held = <<getMutex(0)>>

\* A deleteVBucket call detaches partition vb from the partition table.
Detaches(vb) == vbstate[vb] # "none" /\ vbstate'[vb] = "none"

\* C27: deleteVBucket goes on past its check only for a partition that is there
\* and dead, and the check, the mark in pendingDeletion and the detachment are one
\* step, with no setVBucketState and no other deleteVBucket between them: the
\* partition that is detached is dead, and it is marked in the step that
\* detaches it.
C27_OneStep ==
    [][\A vb \in VBids :
         /\ deleting'[vb] > deleting[vb] => vbstate[vb] = "dead"
         /\ Detaches(vb) => vbstate[vb] = "dead" /\ vb \in pendingDeletion'
         /\ (vb \in pendingDeletion' /\ vb \notin pendingDeletion) => Detaches(vb)]_vars

\* A VBucketDeletionCallback of partition id vb runs to its end with no task
\* scheduled again.
DeletionTaskEnds(vb) == delTasks'[vb] < delTasks[vb]

\* Partition vb is in the partition table and not dead.
Live(vb) == vbstate[vb] # "none" /\ vbstate[vb] # "dead"

\* C28: a completeVBucketDeletion that runs after one that succeeded, with the id
\* no longer marked for deletion, also as one of two tasks and with the
\* partition created again, leaves the partition table, pendingDeletion and the
\* rows of the live partitions as they are.
C28_Idempotent ==
    [][\A vb \in VBids :
         DeletionTaskEnds(vb) /\ vb \notin pendingDeletion =>
            /\ UNCHANGED <<vbstate, pendingDeletion>>
            /\ \A i \in RowIds :
                  rows[i].present /\ Live(rows[i].vb) => rows'[i] = rows[i]]_vars

\* One deletion task of partition 1 has succeeded, a second one is scheduled, and
\* the partition was created again, is active and has a row.
C28_Witness ==
    /\ delTasks[1] > 0 /\ 1 \notin pendingDeletion
    /\ vbstate[1] = "active"
    /\ \E i \in RowIds : rows[i].present /\ rows[i].vb = 1
    /\ fl.pc = "running"

\* A setVBucketState call gives partition vb a state it did not have.
SetsState(vb) == vbstate'[vb] # vbstate[vb] /\ vbstate'[vb] # "none"

\* C29: a setVBucketState call that gives a partition a new state, found or
\* created, schedules one SetVBStateCallback with that state on the I/O
\* dispatcher; a task whose persist fails is scheduled again, and the state of
\* every scheduled task is written to the backing store in the end.
C29_Persists ==
    /\ [][\A vb \in VBids :
            SetsState(vb) =>
               setTasks' \in scheduleSetVBState(setTasks,
                                SetVBStateCallback(vb, vbstate'[vb], FALSE))]_vars
    /\ [][vbDisk' = vbDisk /\ setTasks' # setTasks /\ Len(setTasks') = Len(setTasks) =>
            setTasks' = Append(Tail(setTasks), [Head(setTasks) EXCEPT !.retry = TRUE])]_vars
    /\ \A t \in SetVBStateCallbacks :
          (\E i \in 1..Len(setTasks) : setTasks[i] = t) ~> (vbDisk[t.vbid] = t.key)

\* C30: when no SetVBStateCallback is scheduled any more, the state that was
\* written last to the backing store for a partition is the state the partition
\* has in memory.
C30_LastWins ==
    setTasks = <<>> =>
       \A vb \in VBids : vbDisk[vb] # "none" => vbDisk[vb] = vbstate[vb]

\* The flusher is inside a flushSome call, between begin and the return.
InFlushSome == fl.pc \in {"txn", "io", "commit"}

\* The transaction of a flushSome call: one begin at its start, at most txnSize
\* items dequeued and none while a background fetch waits, every set and del
\* before the commit, the return only by a commit that succeeds, and one count of
\* commitFailed for every commit that fails.
C31_Batch ==
    /\ InFlushSome' /\ ~InFlushSome =>
          fl.pc = "some" /\ fl'.pc = "txn" /\ fl'.n = 0 /\ rows' = rows
    /\ fl'.n <= txnSize
    /\ Len(writing') < Len(writing) =>
          /\ fl.pc = "txn" /\ bgTasks = {} /\ fl.n < txnSize
          /\ writing' = Tail(writing) /\ fl'.n = fl.n + 1
    /\ rows' # rows => fl.pc \in {"txn", "io"} /\ fl'.pc = "txn"
    /\ InFlushSome /\ ~InFlushSome' => flushSomeCommit(TRUE)
    /\ fl'.commitFailed # fl.commitFailed =>
          \/ flushSomeCommit(FALSE) /\ fl'.commitFailed = fl.commitFailed + 1
          \/ ~InFlushSome /\ fl'.commitFailed = 0
    /\ flushSomeCommit(FALSE) =>
          fl'.pc = "commit" /\ fl'.commitFailed = fl.commitFailed + 1

\* A flushSome call whose loop has ended early for a waiting background fetch has
\* counted one preempt when it tries its second commit or has returned.
C31_Preempt ==
    (fl.early /\ (fl.pc # "commit" \/ fl.commitFailed > 0)) => fl.preempts = 1

\* C31: a flushSome call opens one transaction, dequeues at most txnSize items and
\* none once a background fetch waits, and then counts one preempt; it issues
\* every set and del between begin and commit and returns only after a commit
\* that succeeds, counting commitFailed once for every commit that fails.
C31_FlushSome == [][C31_Batch /\ C31_Preempt']_vars

\* A call that has stopped early for a background fetch, has counted the preempt,
\* has seen one commit fail and has returned after the next one.
C31_Witness ==
    fl.pc = "some" /\ fl.early /\ fl.preempts = 1 /\ fl.commitFailed = 1

\* What a call of the warm-up callback adds to numNonResident for its own record,
\* the values ejected by its purge left out.
C32_Ejects ==
    (warmup'.numNonResident - warmup.numNonResident) - (warmup'.purged - warmup.purged)

\* The call has stored its record, and the value is not resident.
C32_StoredEjected ==
    /\ warmup'.rv \in {"ADD_SUCCESS", "ADD_UNDEL"}
    /\ \E vb \in VBids, k \in Keys :
          /\ ht'[vb][k] # ht[vb][k]
          /\ ht[vb][k].present => isDeleted(ht[vb][k])
          /\ ht'[vb][k].present /\ ~isDeleted(ht'[vb][k]) /\ ~isResident(ht'[vb][k])

\* The purge runs at most once: the first ADD_NOMEM purges and adds the record
\* once more, a later one only counts warmOOM, and so does a retry that fails.
C32_Purge ==
    /\ warmup'.purges <= 1
    /\ warmup'.purges # warmup.purges =>
          /\ ~warmup.hasPurged /\ warmup'.hasPurged
          /\ warmup'.adds = warmup.adds + 2
          /\ warmup'.rv = "ADD_NOMEM" => warmup'.warmOOM = warmup.warmOOM + 1
    /\ warmup.hasPurged /\ warmup'.rv = "ADD_NOMEM" =>
          /\ warmup'.warmOOM = warmup.warmOOM + 1
          /\ warmup'.adds = warmup.adds + 1
          /\ warmup'.purges = warmup.purges
          /\ ht' = ht /\ warmup'.numNonResident = warmup.numNonResident
    /\ ~warmup.hasPurged /\ warmup'.hasPurged => warmup'.purges = warmup.purges + 1
    /\ warmup'.warmOOM # warmup.warmOOM =>
          warmup'.rv = "ADD_NOMEM" /\ warmup'.warmOOM = warmup.warmOOM + 1

\* C32: over the records of a warm-up the emergency purge runs at most once; the
\* first add that returns ADD_NOMEM purges and tries its record once more, every
\* later ADD_NOMEM only counts warmOOM, a retry that fails counts warmOOM, and a
\* record counts as an immediate eject only if it was stored with retain = false.
C32_WarmUp ==
    [][/\ C32_Purge
       /\ C32_Ejects \in {0, 1}
       /\ C32_Ejects = 1 => C32_StoredEjected]_vars

\* A step ejects the value of key k of partition vb: the entry stays, live, and
\* loses its value.
Ejects(vb, k) ==
    /\ ht[vb][k].present /\ isResident(ht[vb][k])
    /\ ht'[vb][k].present /\ ~isDeleted(ht'[vb][k]) /\ ~isResident(ht'[vb][k])

\* C33: a value is ejected only when its entry is clean and the backing store
\* holds its content under the row id of the entry, which is above 0; the
\* backing store then returns to a background fetch the value the entry had.
C33_EjectsStored ==
    [][\A vb \in VBids, k \in Keys :
          Ejects(vb, k) =>
             LET v == ht[vb][k]
             IN  /\ isClean(v)
                 /\ v.rowId > 0
                 /\ kvGet(rows, v.rowId) = [status |-> "SUCCESS", value |-> v.value]
                 /\ rows[v.rowId].vb = vb /\ rows[v.rowId].key = k
                 /\ kvGet(rows', ht'[vb][k].rowId).value = v.value]_vars

====
